---- MODULE Spec2Model ----
(***************************************************************************)
(* Cursor-context parsers of the wireview IDE support plugins.             *)
(*                                                                         *)
(* The repository carries three implementations of the same parser:        *)
(*   Ts*   the VSCode language server   (TypeScript, TemplateParser)       *)
(*   Kt*   the PyCharm plugin           (Kotlin, object TemplateParser)    *)
(*   Lua*  the Neovim plugin            (Lua, wireview.parser)             *)
(* Each is a pure function of (content, offset).  Texts are TLA+ strings,  *)
(* offsets are the 0-based offsets of the source (1-based in the Lua       *)
(* locals, as in the Lua code).  The regular expressions and Lua patterns  *)
(* of the source are run by a small backtracking matcher with the          *)
(* leftmost / greedy-first semantics of the three host languages.          *)
(***************************************************************************)
EXTENDS Integers, Sequences, FiniteSets, TLC

VARIABLES
    scenario,   \* which family of documents the editor session types
    typed,      \* the fragments typed so far, in order
    buffer,     \* the text of the edited template
    call,       \* the last operation invoked on the text ("none" after typing)
    cursor,     \* the offset that operation was given
    located,    \* result of the last tag-locator call
    ctx,        \* result of the last cursor-context call
    parent,     \* result of the last parent-component resolution
    metadata,   \* the component metadata in memory, once loaded
    asked,      \* component name and prefix of the last handler-completion call
    offered,    \* labels of the last completion list
    target,     \* location the last definition request returned
    now,        \* the wall clock, milliseconds since the epoch
    tz,         \* offset of the local time zone from UTC, in seconds
    project,    \* the Python code of the project
    disk,       \* the cache file of the metadata
    refreshing, \* is_refreshing / isRefreshing of the metadata service
    jobs,       \* the refresh calls whose extractor process is running
    calls,      \* the refresh calls made so far
    timers,     \* the timers started so far
    refresh_timer   \* refresh_timer of the save autocommand

vars == <<scenario, typed, buffer, call, cursor, located, ctx, parent,
          metadata, asked, offered, target,
          now, tz, project, disk, refreshing, jobs, calls, timers, refresh_timer>>

editorVars == <<scenario, typed, buffer, call, cursor, located, ctx, parent,
                metadata, asked, offered, target>>
refreshVars == <<now, tz, project, disk, refreshing, jobs, calls, timers,
                 refresh_timer>>

(***************************************************************************)
(* Strings                                                                 *)
(***************************************************************************)

\* An absent optional value (null / undefined / nil).  "<" never occurs in
\* a document of the model, so no text can be mistaken for it.
Nil == "<nil>"

\* The outcome of a call that ended with an exception.
Raised == "<raised>"

\* The character of s at 1-based position i.
Ch(s, i) == SubSeq(s, i, i)

Min2(a, b) == IF a < b THEN a ELSE b

\* s.slice(a, b) / s.substring(a, b) for 0 <= a, with b clamped to the length.
Slice(s, a, b) == SubSeq(s, a + 1, Min2(b, Len(s)))

\* The least and the greatest element of a non-empty set of integers.
SetMin(S) == CHOOSE x \in S : \A y \in S : x <= y
SetMax(S) == CHOOSE x \in S : \A y \in S : x >= y

\* The 0-based indices from from on at which sub occurs in s.
Occurrences(s, sub, from) ==
    {i \in from..(Len(s) - Len(sub)) : SubSeq(s, i + 1, i + Len(sub)) = sub}

\* s.indexOf(sub, from): 0-based index of the first occurrence at or after
\* from, or -1.
IndexOf(s, sub, from) ==
    IF Occurrences(s, sub, from) = {} THEN -1 ELSE SetMin(Occurrences(s, sub, from))

\* s.lastIndexOf(sub): 0-based index of the last occurrence, or -1.
LastIndexOf(s, sub) ==
    IF Occurrences(s, sub, 0) = {} THEN -1 ELSE SetMax(Occurrences(s, sub, 0))

(***************************************************************************)
(* Character classes                                                       *)
(***************************************************************************)

Lower == {"a", "b", "c", "d", "e", "f", "g", "h", "i", "j", "k", "l", "m",
          "n", "o", "p", "q", "r", "s", "t", "u", "v", "w", "x", "y", "z"}
Upper == {"A", "B", "C", "I", "O", "X"}
Digit == {"0", "1", "2", "3"}
Quote == {"'", "\""}
Space == {" ", "\n"}
Punct == {"{", "}", "%", "-", ".", "=", "_", ":"}

\* Every character a document of the model can contain.
Alphabet == Lower \cup Upper \cup Digit \cup Quote \cup Space \cup Punct

WordCh  == Lower \cup Upper \cup Digit \cup {"_"}    \* \w
AlnumCh == Lower \cup Upper \cup Digit               \* Lua %w: no underscore
Not(cs) == Alphabet \ cs                              \* [^...]
Dot     == Alphabet \ {"\n"}                          \* . of Java and JavaScript
AnyCh   == Alphabet                                   \* . of a Lua pattern

(***************************************************************************)
(* Backtracking matcher                                                    *)
(*                                                                         *)
(* A pattern is a sequence of items; an item matches min or more           *)
(* characters of a class (at most one unless many), greedily or lazily.    *)
(* A match is its trace: the positions p[1..n+1] with item k matching      *)
(* s[p[k] .. p[k+1]-1].                                                    *)
(***************************************************************************)

One(cs)      == [cs |-> cs, min |-> 1, many |-> FALSE, lazy |-> FALSE]
Opt(cs)      == [cs |-> cs, min |-> 0, many |-> FALSE, lazy |-> FALSE]
Star(cs)     == [cs |-> cs, min |-> 0, many |-> TRUE,  lazy |-> FALSE]
Plus(cs)     == [cs |-> cs, min |-> 1, many |-> TRUE,  lazy |-> FALSE]
LazyStar(cs) == [cs |-> cs, min |-> 0, many |-> TRUE,  lazy |-> TRUE]

\* The literal text str as a pattern.
Lit(str) == [i \in 1..Len(str) |-> One({Ch(str, i)})]

NoMatch == <<>>

\* How a pattern ends: "open" (no anchor), "end" ($ of JavaScript and Lua:
\* the end of the text), "jend" ($ of java.util.regex without MULTILINE:
\* the end of the text, or just before a final line terminator).
AtEnd(s, p, anchor) ==
    \/ anchor = "open"
    \/ p = Len(s) + 1
    \/ anchor = "jend" /\ p = Len(s) /\ Ch(s, p) = "\n"

\* Number of consecutive characters of cs from position p, at most one
\* unless many: up to the first position whose character is not in cs.
RunLen(s, p, cs, many) ==
    IF p > Len(s) \/ Ch(s, p) \notin cs THEN 0
    ELSE IF ~many THEN 1
    ELSE (CHOOSE q \in (p + 1)..(Len(s) + 1) :
              /\ q = Len(s) + 1 \/ Ch(s, q) \notin cs
              /\ \A r \in (p + 1)..(q - 1) : Ch(s, r) \in cs) - p

\* An item that takes exactly one character.
Single(it) == it.min = 1 /\ ~it.many

\* The number of consecutive Single items of re from item k, itself Single.
Singles(re, k) ==
    CHOOSE n \in 1..(Len(re) - k + 1) :
        /\ \A j \in 0..(n - 1) : Single(re[k + j])
        /\ k + n > Len(re) \/ ~Single(re[k + n])

\* The trace head of an item in front of the trace of the items behind it.
Then(head, rest) == IF rest = NoMatch THEN NoMatch ELSE head \o rest

\* The first of two attempts, the second when the first fails.
OrElse(first, second) == IF first # NoMatch THEN first ELSE second

RECURSIVE MatchFrom(_, _, _, _, _), TryCount(_, _, _, _, _, _)
\* Items k.. of re against s from position p.  A stretch of Single items
\* (a literal text) is matched in one step.
MatchFrom(s, p, re, k, anchor) ==
    LET Literal(n) ==
            IF \A j \in 1..(n - 1) : p + j <= Len(s) /\ Ch(s, p + j) \in re[k + j].cs
            THEN Then([j \in 1..n |-> p + j - 1], MatchFrom(s, p + n, re, k + n, anchor))
            ELSE NoMatch
        Repeated(run) ==
            IF run < re[k].min THEN NoMatch
            ELSE IF run = re[k].min
            THEN Then(<<p>>, MatchFrom(s, p + run, re, k + 1, anchor))
            ELSE TryCount(s, p, re, k, anchor, run)
    IN  IF k > Len(re)
        THEN IF AtEnd(s, p, anchor) THEN <<p>> ELSE NoMatch
        ELSE IF Single(re[k])
        THEN IF p > Len(s) \/ Ch(s, p) \notin re[k].cs THEN NoMatch
             ELSE Literal(Singles(re, k))
        ELSE Repeated(RunLen(s, p, re[k].cs, re[k].many))

\* Item k can take re[k].min to run characters.  The counts are tried in
\* the order of the item, the longest first when greedy and the shortest
\* first when lazy, and the first count with which the rest matches is
\* taken; the counts behind the first one are searched by halves, in order.
TryCount(s, p, re, k, anchor, run) ==
    LET \* the match with the count number i of the order
        With(i) == Then(<<p>>, MatchFrom(s, p + (IF re[k].lazy THEN re[k].min + i ELSE run - i),
                                         re, k + 1, anchor))
        RECURSIVE Try(_, _)
        Try(a, b) ==
            IF a = b THEN With(a)
            ELSE OrElse(Try(a, (a + b) \div 2), Try((a + b) \div 2 + 1, b))
    IN  OrElse(With(0), Try(1, run - re[k].min))

\* The match that starts first among the matches ms.
Leftmost(ms) ==
    IF ms = {} THEN NoMatch ELSE CHOOSE m \in ms : \A o \in ms : m[1] <= o[1]

\* Leftmost match of re in s starting at position from or later.  A start
\* whose first character the first item cannot take is no match.
Find(s, re, from, anchor) ==
    Leftmost({MatchFrom(s, p, re, 1, anchor) :
                 p \in {q \in from..(Len(s) + 1) :
                           ~(re[1].min > 0 /\ q <= Len(s) /\ Ch(s, q) \notin re[1].cs)}}
             \ {NoMatch})

\* Group k of a match as an optional value (match?.groupValues?.get(1)).
Group(s, m, k) == IF m = NoMatch THEN Nil ELSE SubSeq(s, m[k], m[k + 1] - 1)

\* Text matched by items a..b of a match.
Cap(s, m, a, b) == SubSeq(s, m[a], m[b + 1] - 1)
\* 0-based start of the match, and 0-based offset just after it.
MStart(m) == m[1] - 1
MEnd(m)   == m[Len(m)] - 1
\* The whole matched text.
MText(s, m) == SubSeq(s, m[1], m[Len(m)] - 1)

(***************************************************************************)
(* Results                                                                 *)
(***************************************************************************)

\* A located tag (TS TagMatch, Kotlin Pair<String, Int>, Lua's three
\* return values); found = FALSE stands for null / nil.
Tag(c, s, e) == [found |-> TRUE, content |-> c, startOffset |-> s, endOffset |-> e]
NoTag == [found |-> FALSE, content |-> "", startOffset |-> 0, endOffset |-> 0]

\* A CursorContext; Nil marks an absent optional field.
Ctx(inTag, type, pos, comp, cur, attr, ev) ==
    [inWireviewTag |-> inTag, tagType |-> type, position |-> pos,
     componentName |-> comp, currentValue |-> cur,
     attributeName |-> attr, eventName |-> ev]

\* CursorContext() of Kotlin, default_context of Lua.
DefaultCtx == Ctx(FALSE, Nil, "outside", Nil, Nil, Nil, Nil)

(***************************************************************************)
(* PyCharm plugin: object TemplateParser (Kotlin)                          *)
(***************************************************************************)

\* \{%-?\s*  , the common head of the Kotlin patterns (4 items).
KtOpen == Lit("{%") \o <<Opt({"-"}), Star(Space)>>

\* TAG_PATTERN = \{%\s*(\w+)          group 1 = item 4
KtTagPattern == Lit("{%") \o <<Star(Space), Plus(WordCh)>>

\* COMPONENT_NAME_PATTERN = \{%-?\s*component(?:_block)?\s+['"]([^'"]+)['"]
\* and the inline patterns of parseComponentTag; Block / Plain are the two
\* ways (?:_block)? can match.  Group 1 is the last item but one, or the last.
KtNameTail       == <<Plus(Space), One(Quote), Plus(Not(Quote)), One(Quote)>>
KtNameBlock      == KtOpen \o Lit("component_block") \o KtNameTail
KtNamePlain      == KtOpen \o Lit("component") \o KtNameTail
KtInSingleTail   == <<Plus(Space), One({"'"}), Star(Not({"'"}))>>
KtInDoubleTail   == <<Plus(Space), One({"\""}), Star(Not({"\""}))>>
KtInNameSingleBlock == KtOpen \o Lit("component_block") \o KtInSingleTail
KtInNameSinglePlain == KtOpen \o Lit("component") \o KtInSingleTail
KtInNameDoubleBlock == KtOpen \o Lit("component_block") \o KtInDoubleTail
KtInNameDoublePlain == KtOpen \o Lit("component") \o KtInDoubleTail
\* ['"](\s+.*)$
KtAfterName      == <<One(Quote), Plus(Space), Star(Dot)>>
\* (\w+)\s*=\s*$   (\w+)\s*=\s*['"]([^'"]*)$   (\w*)$
KtAttrWithEquals == <<Plus(WordCh), Star(Space), One({"="}), Star(Space)>>
KtAttrWithQuote  == <<Plus(WordCh), Star(Space), One({"="}), Star(Space), One(Quote),
                      Star(Not(Quote))>>
KtPartialAttr    == <<Star(WordCh)>>
\* EVENT_NAME_PATTERN = \{%-?\s*on\s+['"]([^'"\.]+)        group 1 = item 9
KtEventName      == KtOpen \o Lit("on") \o <<Plus(Space), One(Quote), Plus(Not(Quote \cup {"."}))>>
\* \{%-?\s*on\s+'([^']*)$   \{%-?\s*on\s+"([^"]*)$          group 1 = item 9
KtInEventSingle  == KtOpen \o Lit("on") \o KtInSingleTail
KtInEventDouble  == KtOpen \o Lit("on") \o KtInDoubleTail
\* ['"]\s+['"]([^']*)$    ['"]\s+"([^"]*)$                  group 1 = item 4
KtInHandlerSingle == <<One(Quote), Plus(Space), One(Quote), Star(Not({"'"}))>>
KtInHandlerDouble == <<One(Quote), Plus(Space), One({"\""}), Star(Not({"\""}))>>
\* ['"]\s+$
KtAfterEvent     == <<One(Quote), Plus(Space)>>
\* \{%-?\s*component_block\s+['"]([^'"]+)['"]   \{%-?\s*endcomponent_block\s*%}
KtOpenPattern    == KtNameBlock
KtClosePattern   == KtOpen \o Lit("endcomponent_block") \o <<Star(Space)>> \o Lit("%}")
\* \{%-?\s*KW\s+(\w*)$   \{%-?\s*KW\s+'([^']*)$   \{%-?\s*KW\s+"([^"]*)$
KtInSlotBare(kw)   == KtOpen \o Lit(kw) \o <<Plus(Space), Star(WordCh)>>
KtInSlotSingle(kw) == KtOpen \o Lit(kw) \o KtInSingleTail
KtInSlotDouble(kw) == KtOpen \o Lit(kw) \o KtInDoubleTail
KtFillBare         == KtInSlotBare("fill")
KtFillSingle       == KtInSlotSingle("fill")
KtFillDouble       == KtInSlotDouble("fill")
KtRenderSlotBare   == KtInSlotBare("render_slot")
KtRenderSlotSingle == KtInSlotSingle("render_slot")
KtRenderSlotDouble == KtInSlotDouble("render_slot")

\* Leftmost match of a pattern with (?:_block)?, given as its two
\* alternatives: at one start position the one with _block is tried first.
FirstOf(withBlock, plain) ==
    IF withBlock # NoMatch /\ (plain = NoMatch \/ withBlock[1] <= plain[1])
    THEN withBlock ELSE plain

FindBlockOpt(s, reBlock, rePlain, anchor) ==
    FirstOf(Find(s, reBlock, 1, anchor), Find(s, rePlain, 1, anchor))

\* Group 1 of a match of FindBlockOpt when the group is the item at
\* distance back from the end of the pattern.
CapBack(s, m, back) == Cap(s, m, Len(m) - 1 - back, Len(m) - 1 - back)
\* The same as an optional value.
GroupBack(s, m, back) == IF m = NoMatch THEN Nil ELSE CapBack(s, m, back)

\* a ?: b
Elvis(a, b) == IF a # Nil THEN a ELSE b

\* The tag type named by the first word of a tag, if any.
TagTypeOf(tagName) ==
    IF tagName \in {"component", "component_block", "on", "fill", "render_slot"}
    THEN tagName ELSE Nil

\* lastOrNull() of a list
LastOrNull(stack) == IF stack = <<>> THEN Nil ELSE stack[Len(stack)]

\* findEnclosingTag with the range test reduced to offset < actualEnd.
KtFindEnclosingTagNoStart(content, offset) ==
    LET RECURSIVE Loop(_)
        Loop(pos) ==
            IF ~(pos < Len(content)) THEN NoTag
            ELSE LET tagStart == IndexOf(content, "{%", pos)
                 IN  IF tagStart = -1 THEN NoTag
                     ELSE LET tagEnd == IndexOf(content, "%}", tagStart)
                          IN  IF tagEnd = -1 THEN NoTag
                              ELSE LET actualEnd == tagEnd + 2
                                   IN  IF offset < actualEnd
                                       THEN Tag(Slice(content, tagStart, actualEnd),
                                                tagStart, actualEnd)
                                       ELSE Loop(actualEnd)
    IN  Loop(0)

KtFindEnclosingTag(content, offset) ==
    LET RECURSIVE Loop(_)
        Loop(pos) ==
            IF ~(pos < Len(content)) THEN NoTag
            ELSE LET tagStart == IndexOf(content, "{%", pos)
                 IN  IF tagStart = -1 THEN NoTag
                     ELSE LET tagEnd == IndexOf(content, "%}", tagStart)
                          IN  IF tagEnd = -1 THEN NoTag
                              ELSE LET actualEnd == tagEnd + 2
                                   IN  IF offset >= tagStart /\ offset < actualEnd
                                       THEN Tag(Slice(content, tagStart, actualEnd),
                                                tagStart, actualEnd)
                                       ELSE Loop(actualEnd)
    IN  Loop(0)

KtDetectTagType(tagContent) ==
    TagTypeOf(Group(tagContent, Find(tagContent, KtTagPattern, 1, "open"), 4))

\* The attribute section of parseComponentTag (afterName != null).
KtAttributeSection(tagType, afterName, componentName) ==
    LET Return(attrWithEquals, attrWithQuote, partialAttr) ==
            IF attrWithEquals # NoMatch
            THEN Ctx(TRUE, tagType, "attribute_value", componentName,
                     "", Cap(afterName, attrWithEquals, 1, 1), Nil)
            ELSE IF attrWithQuote # NoMatch
            THEN Ctx(TRUE, tagType, "attribute_value", componentName,
                     Cap(afterName, attrWithQuote, 6, 6),
                     Cap(afterName, attrWithQuote, 1, 1), Nil)
            ELSE Ctx(TRUE, tagType, "attribute_name", componentName,
                     IF partialAttr # NoMatch THEN Cap(afterName, partialAttr, 1, 1) ELSE "",
                     Nil, Nil)
    IN  Return(Find(afterName, KtAttrWithEquals, 1, "jend"),
               Find(afterName, KtAttrWithQuote, 1, "jend"),
               Find(afterName, KtPartialAttr, 1, "jend"))

KtParseComponentTag(tagContent, cursorInTag, fullContent, offset) ==
    LET beforeCursor == Slice(tagContent, 0, Min2(cursorInTag, Len(tagContent)))
        Return(tagType, componentName, inNameSingle, inNameDouble, afterMatch) ==
            IF inNameSingle # NoMatch
            THEN Ctx(TRUE, tagType, "component_name", Nil,
                     CapBack(beforeCursor, inNameSingle, 0), Nil, Nil)
            ELSE IF inNameDouble # NoMatch
            THEN Ctx(TRUE, tagType, "component_name", Nil,
                     CapBack(beforeCursor, inNameDouble, 0), Nil, Nil)
            ELSE IF afterMatch # NoMatch
            THEN KtAttributeSection(tagType, Cap(beforeCursor, afterMatch, 2, 3),
                                    componentName)
            ELSE Ctx(TRUE, tagType, "outside", componentName, Nil, Nil, Nil)
    IN  Return(KtDetectTagType(tagContent),
               GroupBack(tagContent,
                         FindBlockOpt(tagContent, KtNameBlock, KtNamePlain, "open"), 1),
               FindBlockOpt(beforeCursor, KtInNameSingleBlock, KtInNameSinglePlain, "jend"),
               FindBlockOpt(beforeCursor, KtInNameDoubleBlock, KtInNameDoublePlain, "jend"),
               Find(beforeCursor, KtAfterName, 1, "jend"))

\* String.substringBefore(".") and String.substringAfterLast(".") on a
\* value that contains a dot.
SubstringBefore(value, d) == Slice(value, 0, IndexOf(value, d, 0))
SubstringAfterLast(value, d) == Slice(value, LastIndexOf(value, d) + 1, Len(value))

\* Int.MAX_VALUE
IntMaxValue == 2147483647

\* findParentComponent with the closing tag's removeLast() left out.
KtFindParentComponentNoPop(content, offset) ==
    LET searchContent == Slice(content, 0, offset)
        RECURSIVE Loop(_, _)
        Step(componentStack, openMatch, closeMatch) ==
            LET openStart == IF openMatch = NoMatch THEN IntMaxValue ELSE MStart(openMatch)
                closeStart == IF closeMatch = NoMatch THEN IntMaxValue ELSE MStart(closeMatch)
            IN  IF openStart < closeStart /\ openMatch # NoMatch
                THEN Loop(MEnd(openMatch),
                          Append(componentStack, CapBack(searchContent, openMatch, 1)))
                ELSE IF closeStart < openStart /\ closeMatch # NoMatch
                THEN Loop(MEnd(closeMatch), componentStack)
                ELSE componentStack
        Loop(pos, componentStack) ==
            IF ~(pos < Len(searchContent)) THEN componentStack
            ELSE Step(componentStack,
                      Find(searchContent, KtOpenPattern, pos + 1, "open"),
                      Find(searchContent, KtClosePattern, pos + 1, "open"))
    IN  \* content.substring(0, offset) throws outside 0..length
        IF offset < 0 \/ offset > Len(content) THEN Raised
        ELSE LastOrNull(Loop(0, <<>>))

KtFindParentComponent(content, offset) ==
    LET searchContent == Slice(content, 0, offset)
        RECURSIVE Loop(_, _)
        \* one turn of the while loop, given its two matches
        Step(componentStack, openMatch, closeMatch) ==
            LET openStart == IF openMatch = NoMatch THEN IntMaxValue ELSE MStart(openMatch)
                closeStart == IF closeMatch = NoMatch THEN IntMaxValue ELSE MStart(closeMatch)
            IN  IF openStart < closeStart /\ openMatch # NoMatch
                THEN Loop(MEnd(openMatch),
                          Append(componentStack, CapBack(searchContent, openMatch, 1)))
                ELSE IF closeStart < openStart /\ closeMatch # NoMatch
                THEN Loop(MEnd(closeMatch),
                          IF componentStack # <<>>
                          THEN SubSeq(componentStack, 1, Len(componentStack) - 1)
                          ELSE componentStack)
                ELSE componentStack
        Loop(pos, componentStack) ==
            IF ~(pos < Len(searchContent)) THEN componentStack
            ELSE Step(componentStack,
                      Find(searchContent, KtOpenPattern, pos + 1, "open"),
                      Find(searchContent, KtClosePattern, pos + 1, "open"))
    IN  \* content.substring(0, offset) throws outside 0..length
        IF offset < 0 \/ offset > Len(content) THEN Raised
        ELSE LastOrNull(Loop(0, <<>>))

\* The branch with substringBeforeLast(".") in place of substringBefore(".").
KtEventOrModifierLastDot(value) ==
    IF IndexOf(value, ".", 0) # -1
    THEN Ctx(TRUE, "on", "modifier", Nil, SubstringAfterLast(value, "."), Nil,
             Slice(value, 0, LastIndexOf(value, ".")))
    ELSE Ctx(TRUE, "on", "event_name", Nil, value, Nil, Nil)

\* The branch shared by the single- and double-quoted event string.
KtEventOrModifier(value) ==
    IF IndexOf(value, ".", 0) # -1
    THEN Ctx(TRUE, "on", "modifier", Nil, SubstringAfterLast(value, "."), Nil,
             SubstringBefore(value, "."))
    ELSE Ctx(TRUE, "on", "event_name", Nil, value, Nil, Nil)

KtParseOnTag(tagContent, cursorInTag, fullContent, offset) ==
    LET beforeCursor == Slice(tagContent, 0, Min2(cursorInTag, Len(tagContent)))
        Return(eventName, inEventSingle, inEventDouble, inHandlerSingle, inHandlerDouble,
               afterEvent, parentComponent) ==
            IF inEventSingle # NoMatch
            THEN KtEventOrModifier(Cap(beforeCursor, inEventSingle, 9, 9))
            ELSE IF inEventDouble # NoMatch
            THEN KtEventOrModifier(Cap(beforeCursor, inEventDouble, 9, 9))
            ELSE IF inHandlerSingle # NoMatch \/ inHandlerDouble # NoMatch
            THEN Ctx(TRUE, "on", "handler_name", parentComponent,
                     IF inHandlerSingle # NoMatch
                     THEN Cap(beforeCursor, inHandlerSingle, 4, 4)
                     ELSE Cap(beforeCursor, inHandlerDouble, 4, 4),
                     Nil, eventName)
            ELSE IF afterEvent # NoMatch
            THEN Ctx(TRUE, "on", "handler_name", parentComponent, "", Nil, eventName)
            ELSE Ctx(TRUE, "on", "outside", Nil, Nil, Nil, eventName)
    IN  Return(Group(tagContent, Find(tagContent, KtEventName, 1, "open"), 9),
               Find(beforeCursor, KtInEventSingle, 1, "jend"),
               Find(beforeCursor, KtInEventDouble, 1, "jend"),
               Find(beforeCursor, KtInHandlerSingle, 1, "jend"),
               Find(beforeCursor, KtInHandlerDouble, 1, "jend"),
               Find(beforeCursor, KtAfterEvent, 1, "jend"),
               KtFindParentComponent(fullContent, offset))

\* parseFillTag and parseRenderSlotTag differ in the keyword and tag type.
KtParseSlotTag(kw, beforeCursor, bare, single, double) ==
    LET Return(slotValue) ==
            IF slotValue # Nil
            THEN Ctx(TRUE, kw, "slot_name", Nil, slotValue, Nil, Nil)
            ELSE Ctx(TRUE, kw, "outside", Nil, Nil, Nil, Nil)
    IN  Return(Elvis(GroupBack(beforeCursor, Find(beforeCursor, bare, 1, "jend"), 0),
               Elvis(GroupBack(beforeCursor, Find(beforeCursor, single, 1, "jend"), 0),
                     GroupBack(beforeCursor, Find(beforeCursor, double, 1, "jend"), 0))))

\* parseFillTag with inWireviewTag = true left out of the slot-name result,
\* so that the field keeps its default.
KtParseFillTagUnflagged(tagContent, cursorInTag) ==
    LET Unflagged(slot) ==
            IF slot.position = "slot_name" THEN [slot EXCEPT !.inWireviewTag = FALSE]
            ELSE slot
    IN  Unflagged(KtParseSlotTag("fill",
                                 Slice(tagContent, 0, Min2(cursorInTag, Len(tagContent))),
                                 KtFillBare, KtFillSingle, KtFillDouble))

KtParseFillTag(tagContent, cursorInTag) ==
    KtParseSlotTag("fill", Slice(tagContent, 0, Min2(cursorInTag, Len(tagContent))),
                   KtFillBare, KtFillSingle, KtFillDouble)

KtParseRenderSlotTag(tagContent, cursorInTag) ==
    KtParseSlotTag("render_slot", Slice(tagContent, 0, Min2(cursorInTag, Len(tagContent))),
                   KtRenderSlotBare, KtRenderSlotSingle, KtRenderSlotDouble)

KtGetCursorContextFromString(content, offset) ==
    LET Parse(tagContent, cursorInTag, tagType) ==
            IF tagType = Nil THEN DefaultCtx
            ELSE IF tagType \in {"component", "component_block"}
            THEN KtParseComponentTag(tagContent, cursorInTag, content, offset)
            ELSE IF tagType = "on" THEN KtParseOnTag(tagContent, cursorInTag, content, offset)
            ELSE IF tagType = "fill" THEN KtParseFillTag(tagContent, cursorInTag)
            ELSE KtParseRenderSlotTag(tagContent, cursorInTag)
        InTag(tagInfo) ==
            IF ~tagInfo.found THEN DefaultCtx
            ELSE Parse(tagInfo.content, offset - tagInfo.startOffset,
                       KtDetectTagType(tagInfo.content))
    IN  InTag(KtFindEnclosingTag(content, offset))

(***************************************************************************)
(* Neovim plugin: wireview.parser (Lua)                                    *)
(*                                                                         *)
(* Lua strings are 1-based; the local names below hold what the Lua locals *)
(* hold.  content:sub(i, j) is SubSeq with j clamped to the length.        *)
(***************************************************************************)

LuaSub(s, i, j) == SubSeq(s, i, Min2(j, Len(s)))

\* {%%%-?%s*  , the common head of the Lua patterns (4 items).
LuaOpen == Lit("{%") \o <<Opt({"-"}), Star(Space)>>

\* component[_block]*  : the keyword followed by a starred character set.
LuaComponentKw == Lit("component") \o <<Star({"_", "b", "l", "o", "c", "k"})>>

\* {%%.-%%}
LuaTag            == Lit("{%") \o <<LazyStar(AnyCh)>> \o Lit("%}")
\* {%%%-?%s*(%w+)                                            capture = item 5
LuaFirstWord      == LuaOpen \o <<Plus(AlnumCh)>>
\* {%%%-?%s*component[_block]*%s+['\"]([^'\"]*)['\"]         capture = item 17
LuaCompName       == LuaOpen \o LuaComponentKw
                        \o <<Plus(Space), One(Quote), Star(Not(Quote)), One(Quote)>>
LuaInSingleTail   == <<Plus(Space), One({"'"}), Star(Not({"'"}))>>
LuaInDoubleTail   == <<Plus(Space), One({"\""}), Star(Not({"\""}))>>
\* {%%%-?%s*component[_block]*%s+'([^']*)$  and with "       capture = item 17
LuaInNameSingle   == LuaOpen \o LuaComponentKw \o LuaInSingleTail
LuaInNameDouble   == LuaOpen \o LuaComponentKw \o LuaInDoubleTail
\* ['\"]%s+(.*)$                                             capture = item 3
LuaAfterName      == <<One(Quote), Plus(Space), Star(AnyCh)>>
\* ['\"]%s*
LuaPastQuote      == <<One(Quote), Star(Space)>>
\* (%w+)%s*=%s*$   (%w+)%s*=%s*['\"]([^'\"]*)$   (%w*)$
LuaAttrName       == <<Plus(AlnumCh), Star(Space), One({"="}), Star(Space)>>
LuaAttrWithQuote  == <<Plus(AlnumCh), Star(Space), One({"="}), Star(Space), One(Quote),
                       Star(Not(Quote))>>
LuaPartialAttr    == <<Star(AlnumCh)>>
\* {%%%-?%s*on%s+['\"]([^'\"%.]*)                            capture = item 9
LuaEventName      == LuaOpen \o Lit("on")
                        \o <<Plus(Space), One(Quote), Star(Not(Quote \cup {"."}))>>
\* {%%%-?%s*on%s+'([^']*)$  and with "                       capture = item 9
LuaInEventSingle  == LuaOpen \o Lit("on") \o LuaInSingleTail
LuaInEventDouble  == LuaOpen \o Lit("on") \o LuaInDoubleTail
\* %.   %.([^%.]*)$   ^([^%.]+)
LuaDot            == <<One({"."})>>
LuaAfterLastDot   == <<One({"."}), Star(Not({"."}))>>
LuaBeforeDot      == <<Plus(Not({"."}))>>
\* ['\"]%s+['\"]([^']*)$   ['\"]%s+\"([^\"]*)$               capture = item 4
LuaInHandlerSingle == <<One(Quote), Plus(Space), One(Quote), Star(Not({"'"}))>>
LuaInHandlerDouble == <<One(Quote), Plus(Space), One({"\""}), Star(Not({"\""}))>>
\* ['\"]%s+$
LuaAfterEvent     == <<One(Quote), Plus(Space)>>
\* {%%%-?%s*KW%s+(%w*)$   {%%%-?%s*KW%s+'([^']*)$   and with "
LuaFillBare         == LuaOpen \o Lit("fill") \o <<Plus(Space), Star(AlnumCh)>>
LuaFillSingle       == LuaOpen \o Lit("fill") \o LuaInSingleTail
LuaFillDouble       == LuaOpen \o Lit("fill") \o LuaInDoubleTail
LuaRenderSlotBare   == LuaOpen \o Lit("render_slot") \o <<Plus(Space), Star(AlnumCh)>>
LuaRenderSlotSingle == LuaOpen \o Lit("render_slot") \o LuaInSingleTail
LuaRenderSlotDouble == LuaOpen \o Lit("render_slot") \o LuaInDoubleTail
\* {%%%-?%s*(%w+[^%%]-)%%}                                   capture = items 5..6
LuaAnyTag         == LuaOpen \o <<Plus(AlnumCh), LazyStar(Not({"%"}))>> \o Lit("%}")
\* ^(component_block)%s+['\"]([^'\"]+)['\"]                  name = item 18
LuaBlockOpen      == Lit("component_block")
                        \o <<Plus(Space), One(Quote), Plus(Not(Quote)), One(Quote)>>
\* ^endcomponent_block
LuaBlockClose     == Lit("endcomponent_block")

LuaFindEnclosingTag(content, offset) ==
    LET RECURSIVE Loop(_)
        \* one turn of the while loop, given the match of content:find
        Step(m) ==
            LET tag_start == m[1]
                tag_end == m[Len(m)] - 1
            IN  IF m = NoMatch THEN NoTag
                ELSE IF tag_start <= offset + 1 /\ tag_end >= offset + 1
                THEN Tag(LuaSub(content, tag_start, tag_end), tag_start - 1, tag_end - 1)
                ELSE Loop(tag_end + 1)
        Loop(search_pos) == Step(Find(content, LuaTag, search_pos, "open"))
    IN  Loop(1)

LuaDetectTagType(tag_content) ==
    TagTypeOf(Group(tag_content, Find(tag_content, LuaFirstWord, 1, "open"), 5))

\* The attribute section of parse_component_tag (after_name is not nil).
LuaAttributeSection(tag_type, comp_name, after_name) ==
    LET Return(attr, attr_with_quote, partial_attr) ==
            IF attr # NoMatch
            THEN Ctx(TRUE, tag_type, "attribute_value", comp_name, "",
                     Cap(after_name, attr, 1, 1), Nil)
            ELSE IF attr_with_quote # NoMatch
            THEN Ctx(TRUE, tag_type, "attribute_value", comp_name,
                     Cap(after_name, attr_with_quote, 6, 6),
                     Cap(after_name, attr_with_quote, 1, 1), Nil)
            ELSE Ctx(TRUE, tag_type, "attribute_name", comp_name,
                     Cap(after_name, partial_attr, 1, 1), Nil, Nil)
    IN  Return(Find(after_name, LuaAttrName, 1, "end"),
               Find(after_name, LuaAttrWithQuote, 1, "end"),
               Find(after_name, LuaPartialAttr, 1, "end"))

LuaParseComponentTag(tag_content, cursor_in_tag) ==
    LET before_cursor == LuaSub(tag_content, 1, cursor_in_tag)
        Return(tag_type, comp_name, in_name_single, in_name_double, after, past_quote) ==
            IF in_name_single # NoMatch
            THEN Ctx(TRUE, tag_type, "component_name", comp_name,
                     Cap(before_cursor, in_name_single, 17, 17), Nil, Nil)
            ELSE IF in_name_double # NoMatch
            THEN Ctx(TRUE, tag_type, "component_name", comp_name,
                     Cap(before_cursor, in_name_double, 17, 17), Nil, Nil)
            ELSE IF after # NoMatch
            THEN LuaAttributeSection(tag_type, comp_name, Cap(before_cursor, after, 3, 3))
            ELSE IF comp_name # Nil /\ past_quote # NoMatch
            THEN Ctx(TRUE, tag_type, "attribute_name", comp_name, "", Nil, Nil)
            ELSE Ctx(TRUE, tag_type, "outside", comp_name, Nil, Nil, Nil)
    IN  Return(LuaDetectTagType(tag_content),
               Group(tag_content, Find(tag_content, LuaCompName, 1, "open"), 17),
               Find(before_cursor, LuaInNameSingle, 1, "end"),
               Find(before_cursor, LuaInNameDouble, 1, "end"),
               Find(before_cursor, LuaAfterName, 1, "end"),
               Find(before_cursor, LuaPastQuote, 1, "open"))

\* The branch shared by in_event_single and in_event_double.
LuaEventOrModifier(event_name, in_event) ==
    LET Return(dot, last, first) ==
            IF dot # NoMatch
            THEN Ctx(TRUE, "on", "modifier", Nil,
                     IF last # NoMatch THEN Cap(in_event, last, 2, 2) ELSE "",
                     Nil,
                     IF first # NoMatch THEN Cap(in_event, first, 1, 1) ELSE Nil)
            ELSE Ctx(TRUE, "on", "event_name", Nil, in_event, Nil, event_name)
    IN  Return(Find(in_event, LuaDot, 1, "open"),
               Find(in_event, LuaAfterLastDot, 1, "end"),
               MatchFrom(in_event, 1, LuaBeforeDot, 1, "open"))

LuaParseOnTag(tag_content, cursor_in_tag) ==
    LET before_cursor == LuaSub(tag_content, 1, cursor_in_tag)
        Return(event_name, in_event_single, in_event_double, in_handler_single,
               in_handler_double, after_event) ==
            IF in_event_single # NoMatch
            THEN LuaEventOrModifier(event_name, Cap(before_cursor, in_event_single, 9, 9))
            ELSE IF in_event_double # NoMatch
            THEN LuaEventOrModifier(event_name, Cap(before_cursor, in_event_double, 9, 9))
            ELSE IF in_handler_single # NoMatch
            THEN Ctx(TRUE, "on", "handler_name", Nil,
                     Cap(before_cursor, in_handler_single, 4, 4), Nil, event_name)
            ELSE IF in_handler_double # NoMatch
            THEN Ctx(TRUE, "on", "handler_name", Nil,
                     Cap(before_cursor, in_handler_double, 4, 4), Nil, event_name)
            ELSE IF after_event # NoMatch
            THEN Ctx(TRUE, "on", "handler_name", Nil, "", Nil, event_name)
            ELSE Ctx(TRUE, "on", "outside", Nil, Nil, Nil, event_name)
    IN  Return(Group(tag_content, Find(tag_content, LuaEventName, 1, "open"), 9),
               Find(before_cursor, LuaInEventSingle, 1, "end"),
               Find(before_cursor, LuaInEventDouble, 1, "end"),
               Find(before_cursor, LuaInHandlerSingle, 1, "end"),
               Find(before_cursor, LuaInHandlerDouble, 1, "end"),
               Find(before_cursor, LuaAfterEvent, 1, "end"))

\* parse_fill_tag and parse_render_slot_tag differ in the keyword only.
LuaParseSlotTag(kw, before_cursor, bare, single, double) ==
    LET last == 4 + Len(kw) + 2
        Return(in_slot_bare, in_slot_single, in_slot_double) ==
            IF in_slot_bare # NoMatch
            THEN Ctx(TRUE, kw, "slot_name", Nil,
                     Cap(before_cursor, in_slot_bare, last, last), Nil, Nil)
            ELSE IF in_slot_single # NoMatch
            THEN Ctx(TRUE, kw, "slot_name", Nil,
                     Cap(before_cursor, in_slot_single, last + 1, last + 1), Nil, Nil)
            ELSE IF in_slot_double # NoMatch
            THEN Ctx(TRUE, kw, "slot_name", Nil,
                     Cap(before_cursor, in_slot_double, last + 1, last + 1), Nil, Nil)
            ELSE Ctx(TRUE, kw, "outside", Nil, Nil, Nil, Nil)
    IN  Return(Find(before_cursor, bare, 1, "end"),
               Find(before_cursor, single, 1, "end"),
               Find(before_cursor, double, 1, "end"))

LuaParseFillTag(tag_content, cursor_in_tag) ==
    LuaParseSlotTag("fill", LuaSub(tag_content, 1, cursor_in_tag),
                    LuaFillBare, LuaFillSingle, LuaFillDouble)

LuaParseRenderSlotTag(tag_content, cursor_in_tag) ==
    LuaParseSlotTag("render_slot", LuaSub(tag_content, 1, cursor_in_tag),
                    LuaRenderSlotBare, LuaRenderSlotSingle, LuaRenderSlotDouble)

LuaFindParentComponent(content, offset) ==
    LET search_content == LuaSub(content, 1, offset)
        RECURSIVE Gmatch(_, _)
        \* one turn of the for loop: the tag body captured by gmatch, the
        \* position behind the tag, and the two matches on the body
        Turn(component_stack, behind, body, open, close) ==
            IF open # NoMatch
            THEN Gmatch(behind, Append(component_stack, Cap(body, open, 18, 18)))
            ELSE IF close # NoMatch /\ Len(component_stack) > 0
            THEN Gmatch(behind, SubSeq(component_stack, 1, Len(component_stack) - 1))
            ELSE Gmatch(behind, component_stack)
        Captured(component_stack, m, body) ==
            Turn(component_stack, m[Len(m)], body,
                 MatchFrom(body, 1, LuaBlockOpen, 1, "open"),
                 MatchFrom(body, 1, LuaBlockClose, 1, "open"))
        Matched(component_stack, m) ==
            IF m = NoMatch THEN component_stack
            ELSE Captured(component_stack, m, Cap(search_content, m, 5, 6))
        \* the for loop over search_content:gmatch(...), from position pos
        Gmatch(pos, component_stack) ==
            Matched(component_stack, Find(search_content, LuaAnyTag, pos, "open"))
        Last(stack) == IF Len(stack) > 0 THEN stack[Len(stack)] ELSE Nil
    IN  Last(Gmatch(1, <<>>))

LuaGetCursorContextFromString(content, offset) ==
    LET \* if not context.component_name then ... = find_parent_component(...)
        WithParent(context) ==
            IF context.componentName = Nil
            THEN [context EXCEPT !.componentName = LuaFindParentComponent(content, offset)]
            ELSE context
        Parse(tag_content, cursor_in_tag, tag_type) ==
            IF tag_type = Nil THEN DefaultCtx
            ELSE IF tag_type \in {"component", "component_block"}
            THEN LuaParseComponentTag(tag_content, cursor_in_tag)
            ELSE IF tag_type = "on"
            THEN WithParent(LuaParseOnTag(tag_content, cursor_in_tag))
            ELSE IF tag_type = "fill"
            THEN [LuaParseFillTag(tag_content, cursor_in_tag)
                     EXCEPT !.componentName = LuaFindParentComponent(content, offset)]
            ELSE LuaParseRenderSlotTag(tag_content, cursor_in_tag)
        InTag(found) ==
            IF ~found.found THEN DefaultCtx
            ELSE Parse(found.content, offset - found.startOffset + 1,
                       LuaDetectTagType(found.content))
    IN  InTag(LuaFindEnclosingTag(content, offset))

(***************************************************************************)
(* VSCode language server: class TemplateParser (TypeScript)               *)
(***************************************************************************)

\* \{%\s*  , the common head of the TypeScript patterns (3 items).
TsOpen == Lit("{%") \o <<Star(Space)>>

\* The last of the successive matches of a /g pattern, or NoMatch.
RECURSIVE LastMatch(_, _, _, _)
LastMatch(s, re, from, prev) ==
    LET After(m) == IF m = NoMatch THEN prev ELSE LastMatch(s, re, m[Len(m)], m)
    IN  After(Find(s, re, from, "open"))

\* /\{%\s*(\w+)/                                             group 1 = item 4
TsTagName        == TsOpen \o <<Plus(WordCh)>>
\* new RegExp(`\\{%\\s*${tagKeyword}\\s+['"]([^'"]*)['"\\s]?`)   group 1 = last item but one
TsNameTail       == <<Plus(Space), One(Quote), Star(Not(Quote)), Opt(Quote \cup Space)>>
TsNameMatch(kw)  == TsOpen \o Lit(kw) \o TsNameTail
TsNameComponent  == TsNameMatch("component")
TsNameBlock      == TsNameMatch("component_block")
\* new RegExp(`\\{%\\s*${tagKeyword}\\s+['"]?$`)
TsAtName(kw)     == TsOpen \o Lit(kw) \o <<Plus(Space), Opt(Quote)>>
TsAtNameComponent == TsAtName("component")
TsAtNameBlock    == TsAtName("component_block")
\* /(\w+)\s*=\s*['"]?([^'"\s]*)$/                             groups = items 1 and 6
TsEqMatch        == <<Plus(WordCh), Star(Space), One({"="}), Star(Space), Opt(Quote),
                      Star(Not(Quote \cup Space))>>
\* /\s(\w*)$/                                                 group 1 = item 2
TsAttrMatch      == <<One(Space), Star(WordCh)>>
\* /\{%\s*on\s+['"]$/
TsEventStart     == TsOpen \o Lit("on") \o <<Plus(Space), One(Quote)>>
\* /\{%\s*on\s+['"]([^'"]*)['"]/                              group 1 = item 8
TsEventMatch     == TsOpen \o Lit("on") \o <<Plus(Space), One(Quote), Star(Not(Quote)), One(Quote)>>
\* /\{%\s*on\s+['"][^'"]*['"]\s+['"]$/
TsHandlerStart   == TsEventMatch \o <<Plus(Space), One(Quote)>>
\* /\{%\s*on\s+['"][^'"]*['"]\s+['"]([^'"]*)['"]?/            group 1 = item 12
TsHandlerMatch   == TsEventMatch \o <<Plus(Space), One(Quote), Star(Not(Quote)), Opt(Quote)>>
\* /\{%\s*fill\s+(\w*)$/                                      group 1 = item 9
TsFillSlot       == TsOpen \o Lit("fill") \o <<Plus(Space), Star(WordCh)>>
\* /\{%\s*render_slot\s+['"]([^'"]*)$/                        group 1 = item 17
TsRenderSlot     == TsOpen \o Lit("render_slot") \o <<Plus(Space), One(Quote), Star(Not(Quote))>>
\* /\{%\s*component_block\s+['"](\w+)['"]/g
TsBlockOpen      == TsOpen \o Lit("component_block")
                       \o <<Plus(Space), One(Quote), Plus(WordCh), One(Quote)>>
\* /wireview-component=["'](\w+)["']/g
TsHtmlAttr       == Lit("wireview-component=") \o <<One(Quote), Plus(WordCh), One(Quote)>>
\* /['"](\w+)['"]/                                            group 1 = item 2
TsQuotedWord     == <<One(Quote), Plus(WordCh), One(Quote)>>

TsFindEnclosingTag(content, offset) ==
    LET RECURSIVE Loop(_, _, _)
        \* The for loop from index i on.  An iteration at which neither
        \* slice test succeeds changes nothing, so the loop is taken up at
        \* the next index where "{%" or "%}" starts.
        Loop(i, startIndex, depth) ==
            LET open  == IndexOf(content, "{%", i)
                close == IndexOf(content, "%}", i)
            IN  IF open = -1 /\ close = -1 THEN NoTag
                ELSE IF open # -1 /\ (close = -1 \/ open < close)
                THEN Loop(open + 1, IF depth = 0 THEN open ELSE startIndex, depth + 1)
                ELSE IF depth - 1 = 0 /\ startIndex # -1
                THEN LET endIndex == close + 2
                     IN  IF offset >= startIndex /\ offset <= endIndex
                         THEN Tag(Slice(content, startIndex, endIndex), startIndex, endIndex)
                         ELSE Loop(close + 1, -1, depth - 1)
                ELSE Loop(close + 1, startIndex, depth - 1)
    IN  Loop(0, -1, 0)

TsDetectTagType(tagContent) ==
    TagTypeOf(Group(tagContent, Find(tagContent, TsTagName, 1, "open"), 4))

TsParseAttributeContext(content, relativeOffset, componentName, tagType) ==
    LET beforeCursor == Slice(content, 0, relativeOffset)
        Return(eqMatch, attrMatch) ==
            IF eqMatch # NoMatch
            THEN Ctx(TRUE, tagType, "attribute_value", componentName,
                     Cap(beforeCursor, eqMatch, 6, 6), Cap(beforeCursor, eqMatch, 1, 1), Nil)
            ELSE IF attrMatch # NoMatch
            THEN Ctx(TRUE, tagType, "attribute_name", componentName,
                     Cap(beforeCursor, attrMatch, 2, 2), Nil, Nil)
            ELSE Ctx(TRUE, tagType, "attribute_name", componentName, Nil, Nil, Nil)
    IN  Return(Find(beforeCursor, TsEqMatch, 1, "end"),
               Find(beforeCursor, TsAttrMatch, 1, "end"))

TsParseComponentTag(content, relativeOffset, tagType) ==
    LET tagKeyword == tagType
        beforeName == Slice(content, 0, relativeOffset)
        \* the branch of a name match that holds the cursor
        OnName(name, nameStart, nameEnd, otherwise) ==
            IF relativeOffset >= nameStart /\ relativeOffset <= nameEnd + 1
            THEN Ctx(TRUE, tagType, "component_name", Nil,
                     Slice(name, 0, relativeOffset - nameStart), Nil, Nil)
            ELSE IF relativeOffset > nameEnd
            THEN TsParseAttributeContext(content, relativeOffset, name, tagType)
            ELSE otherwise
        Named(name, nameStart, otherwise) ==
            OnName(name, nameStart, nameStart + Len(name), otherwise)
        Matched(fullMatch, name, otherwise) ==
            Named(name, IndexOf(content, fullMatch, 0) + IndexOf(fullMatch, name, 0),
                  otherwise)
        Return(nameMatch, otherwise) ==
            IF nameMatch # NoMatch
            THEN Matched(MText(content, nameMatch),
                         Cap(content, nameMatch, Len(tagKeyword) + 6, Len(tagKeyword) + 6),
                         otherwise)
            ELSE otherwise
        \* the result when the cursor is neither on nor behind a matched name
        AtName(atName) ==
            IF atName # NoMatch
            THEN Ctx(TRUE, tagType, "component_name", Nil, "", Nil, Nil)
            ELSE Ctx(TRUE, tagType, "attribute_name", Nil, Nil, Nil, Nil)
    IN  Return(Find(content,
                    IF tagKeyword = "component" THEN TsNameComponent ELSE TsNameBlock,
                    1, "open"),
               AtName(Find(beforeName,
                           IF tagKeyword = "component" THEN TsAtNameComponent
                           ELSE TsAtNameBlock,
                           1, "end")))

\* value.split(".")[0]
SplitFirst(value, d) ==
    IF IndexOf(value, d, 0) = -1 THEN value ELSE Slice(value, 0, IndexOf(value, d, 0))

\* The part of parseOnTag that runs when eventMatch is not null and the
\* cursor is not inside the event string.
TsHandlerPart(content, relativeOffset, beforeCursor, eventValue) ==
    LET none == Ctx(TRUE, "on", "event_name", Nil, Nil, Nil, Nil)
        OnHandler(handler, handlerStart, handlerEnd) ==
            IF relativeOffset >= handlerStart /\ relativeOffset <= handlerEnd + 1
            THEN Ctx(TRUE, "on", "handler_name", Nil,
                     Slice(handler, 0, relativeOffset - handlerStart), Nil,
                     SplitFirst(eventValue, "."))
            ELSE none
        Started(handler, handlerStart) ==
            OnHandler(handler, handlerStart, handlerStart + Len(handler))
        Matched(fullMatch, handler) ==
            Started(handler, IndexOf(content, fullMatch, 0) + LastIndexOf(fullMatch, handler))
        Return(handlerStartMatch, handlerMatch) ==
            IF handlerStartMatch # NoMatch
            THEN Ctx(TRUE, "on", "handler_name", Nil, "", Nil, SplitFirst(eventValue, "."))
            ELSE IF handlerMatch # NoMatch
            THEN Matched(MText(content, handlerMatch), Cap(content, handlerMatch, 12, 12))
            ELSE none
    IN  Return(Find(beforeCursor, TsHandlerStart, 1, "end"),
               Find(content, TsHandlerMatch, 1, "open"))

TsParseOnTag(content, relativeOffset) ==
    LET beforeCursor == Slice(content, 0, relativeOffset)
        InEvent(eventValue, cursorInEvent, lastDot) ==
            IF lastDot < cursorInEvent /\ IndexOf(eventValue, ".", 0) # -1
            THEN Ctx(TRUE, "on", "modifier", Nil,
                     Slice(eventValue, lastDot + 1, cursorInEvent),
                     Nil, SplitFirst(eventValue, "."))
            ELSE Ctx(TRUE, "on", "event_name", Nil, Slice(eventValue, 0, cursorInEvent),
                     Nil, Nil)
        OnEvent(eventValue, eventStart, eventEnd) ==
            IF relativeOffset >= eventStart /\ relativeOffset <= eventEnd
            THEN InEvent(eventValue, relativeOffset - eventStart,
                         LastIndexOf(eventValue, "."))
            ELSE TsHandlerPart(content, relativeOffset, beforeCursor, eventValue)
        Started(eventValue, eventStart) ==
            OnEvent(eventValue, eventStart, eventStart + Len(eventValue))
        Matched(fullMatch, eventValue) ==
            Started(eventValue,
                    IndexOf(content, fullMatch, 0) + IndexOf(fullMatch, eventValue, 0))
        Return(eventStartMatch, eventMatch) ==
            IF eventStartMatch # NoMatch
            THEN Ctx(TRUE, "on", "event_name", Nil, "", Nil, Nil)
            ELSE IF eventMatch = NoMatch
            THEN Ctx(TRUE, "on", "event_name", Nil, Nil, Nil, Nil)
            ELSE Matched(MText(content, eventMatch), Cap(content, eventMatch, 8, 8))
    IN  Return(Find(beforeCursor, TsEventStart, 1, "end"),
               Find(content, TsEventMatch, 1, "open"))

TsParseFillTag(content, relativeOffset) ==
    LET beforeCursor == Slice(content, 0, relativeOffset)
    IN  Ctx(TRUE, "fill", "slot_name", Nil,
            Group(beforeCursor, Find(beforeCursor, TsFillSlot, 1, "end"), 9), Nil, Nil)

TsParseRenderSlotTag(content, relativeOffset) ==
    LET beforeCursor == Slice(content, 0, relativeOffset)
    IN  Ctx(TRUE, "render_slot", "slot_name", Nil,
            Group(beforeCursor, Find(beforeCursor, TsRenderSlot, 1, "end"), 17), Nil, Nil)

TsFindComponentContext(content, offset) ==
    LET \* slice counts a negative end from the end of the string
        before == Slice(content, 0,
                        IF offset < 0 THEN Len(content) + offset ELSE offset)
        \* /['"](\w+)['"]/ on the matched text: its first quoted word
        NameIn(text) == Group(text, Find(text, TsQuotedWord, 1, "open"), 2)
        NameOf(m) == IF m = NoMatch THEN Nil ELSE NameIn(MText(before, m))
    IN  Elvis(NameOf(LastMatch(before, TsBlockOpen, 1, NoMatch)),
              NameOf(LastMatch(before, TsHtmlAttr, 1, NoMatch)))

TsGetCursorContext(content, offset) ==
    LET Parse(tagContent, relativeOffset, tagType) ==
            IF tagType = Nil THEN DefaultCtx
            ELSE IF tagType \in {"component", "component_block"}
            THEN TsParseComponentTag(tagContent, relativeOffset, tagType)
            ELSE IF tagType = "on" THEN TsParseOnTag(tagContent, relativeOffset)
            ELSE IF tagType = "fill" THEN TsParseFillTag(tagContent, relativeOffset)
            ELSE TsParseRenderSlotTag(tagContent, relativeOffset)
        InTag(found) ==
            IF ~found.found
            THEN Ctx(FALSE, Nil, "outside", TsFindComponentContext(content, offset),
                     Nil, Nil, Nil)
            ELSE Parse(found.content, offset - found.startOffset,
                       TsDetectTagType(found.content))
    IN  InTag(TsFindEnclosingTag(content, offset))

(***************************************************************************)
(* Handler completion of the three plugins                                 *)
(*                                                                         *)
(* A completion list is modelled by the set of its labels.  The metadata   *)
(* is absent until it is loaded; a component holds its other two names,    *)
(* the names of its fields and slots, and for every method whether it is   *)
(* async.                                                                  *)
(***************************************************************************)

\* toLowerCase() / lowercase() / :lower() of one character.
LowerOf(c) ==
    CASE c = "A" -> "a" [] c = "B" -> "b" [] c = "C" -> "c" [] c = "D" -> "d"
      [] c = "E" -> "e" [] c = "F" -> "f" [] c = "G" -> "g" [] c = "H" -> "h"
      [] c = "I" -> "i" [] c = "J" -> "j" [] c = "K" -> "k" [] c = "L" -> "l"
      [] c = "M" -> "m" [] c = "N" -> "n" [] c = "O" -> "o" [] c = "P" -> "p"
      [] c = "Q" -> "q" [] c = "R" -> "r" [] c = "S" -> "s" [] c = "T" -> "t"
      [] c = "U" -> "u" [] c = "V" -> "v" [] c = "W" -> "w" [] c = "X" -> "x"
      [] c = "Y" -> "y" [] c = "Z" -> "z"
      [] OTHER -> c

RECURSIVE ToLowerCase(_)
ToLowerCase(s) ==
    IF s = "" THEN "" ELSE LowerOf(Ch(s, 1)) \o ToLowerCase(SubSeq(s, 2, Len(s)))

\* s.startsWith(p); s:sub(1, #p) == p
StartsWith(s, p) == Len(p) <= Len(s) /\ SubSeq(s, 1, Len(p)) = p

\* prefix?.toLowerCase() || "" ; prefix?.lowercase() ?: "" ; (prefix or ""):lower()
LowerPrefix(prefix) == IF prefix = Nil THEN "" ELSE ToLowerCase(prefix)

\* No metadata in memory (null / nil), and no component (undefined / null /
\* nil): records, so that they compare with the loaded ones.
NoMetadata  == [loaded |-> FALSE]

\* The cache file is missing.
NoFile == [exists |-> FALSE]

\* maxAgeMs of loadFromCache.
MaxAgeMs == 5 * 60 * 1000

\* The instant a run starts at, in milliseconds since the epoch: a cache
\* file generated at the epoch is three times as old as maxAgeMs.
StartNow == 3 * MaxAgeMs

\* refresh_timer is nil: the timers have the numbers 1, 2, ...
NoTimer == 0
NoComponent == [found |-> FALSE]

\* The component a name denotes: by its key, else by fqn or app_key (no two
\* components of the model share one of these), else none.
ComponentNamed(components, name) ==
    LET same == {n \in DOMAIN components :
                    components[n].fqn = name \/ components[n].app_key = name}
    IN  IF name \in DOMAIN components THEN components[name]
        ELSE IF same = {} THEN NoComponent
        ELSE components[CHOOSE n \in same : TRUE]

TsExcludedMethods ==
    {"joined", "leaving", "notification", "mutation", "params_changed",
     "handle_hook_event", "broadcast", "deffer", "destroy", "focus_on",
     "skip_render", "force_render", "freeze", "dom", "stream",
     "stream_insert", "stream_delete", "assign_async", "allow_upload",
     "cancel_upload", "consume_uploads", "model_copy", "model_dump",
     "model_dump_json", "model_json_schema", "model_parametrized_name",
     "model_post_init", "model_rebuild", "model_validate",
     "model_validate_json", "model_validate_strings", "model_construct",
     "copy", "dict", "json", "parse_obj", "parse_raw", "parse_file",
     "from_orm", "construct", "new"}

KtExcludedMethods ==
    {"joined", "leaving", "notification", "mutation", "params_changed",
     "handle_hook_event", "broadcast", "deffer", "destroy", "focus_on",
     "skip_render", "force_render", "freeze", "dom", "stream",
     "stream_insert", "stream_delete", "assign_async", "allow_upload",
     "cancel_upload", "consume_uploads", "model_copy", "model_dump",
     "model_dump_json", "model_json_schema", "model_parametrized_name",
     "model_post_init", "model_rebuild", "model_validate",
     "model_validate_json", "model_validate_strings", "model_construct",
     "copy", "dict", "json", "parse_obj", "parse_raw", "parse_file",
     "from_orm", "construct", "new"}

LuaExcludedMethods ==
    {"joined", "leaving", "notification", "mutation", "params_changed",
     "handle_hook_event", "broadcast", "deffer", "destroy", "focus_on",
     "skip_render", "force_render", "freeze", "dom", "stream",
     "stream_insert", "stream_delete", "assign_async", "allow_upload",
     "cancel_upload", "consume_uploads", "model_copy", "model_dump",
     "model_dump_json", "model_json_schema", "model_parametrized_name",
     "model_post_init", "model_rebuild", "model_validate",
     "model_validate_json", "model_validate_strings", "model_construct",
     "copy", "dict", "json", "parse_obj", "parse_raw", "parse_file",
     "from_orm", "construct", "new"}

TsFindComponent(md, name) == ComponentNamed(md.components, name)

TsGetComponentCompletions(md, prefix) ==
    LET lowerPrefix == LowerPrefix(prefix)
        Matches(text) == lowerPrefix = "" \/ StartsWith(ToLowerCase(text), lowerPrefix)
        shown == {n \in DOMAIN md.components : Matches(n)}
    IN  shown
        \cup {md.components[n].fqn : n \in {k \in shown : Matches(md.components[k].fqn)}}
        \cup {md.components[n].app_key :
                 n \in {k \in shown : Matches(md.components[k].app_key)}}

TsGetAttributeCompletions(md, componentName) ==
    LET Of(component) == IF ~component.found THEN {} ELSE component.fields
    IN  IF componentName \in {Nil, ""} THEN {}
        ELSE Of(TsFindComponent(md, componentName))

TsGetHandlerCompletions(md, componentName) ==
    LET Of(component) ==
            IF ~component.found THEN {}
            ELSE {name \in DOMAIN component.methods :
                     /\ name \notin TsExcludedMethods
                     /\ component.methods[name].is_async}
    IN  IF componentName \in {Nil, ""} THEN {}
        ELSE Of(TsFindComponent(md, componentName))

TsGetEventCompletions ==
    {"click", "dblclick", "mousedown", "mouseup", "mouseover", "mouseout",
     "mousemove", "input", "change", "submit", "keydown", "keyup",
     "keypress", "focus", "blur", "scroll", "load", "error"}

TsGetModifierCompletions(md, prefix) ==
    LET lowerPrefix == LowerPrefix(prefix)
    IN  {name \in md.modifiers :
            /\ ~(StartsWith(name, "_") \/ name = "inlinejs")
            /\ (lowerPrefix = "" \/ StartsWith(ToLowerCase(name), lowerPrefix))}

TsGetSlotCompletions(md, componentName) ==
    LET Of(component) == IF ~component.found THEN {} ELSE component.slots
    IN  IF componentName \in {Nil, ""} THEN {}
        ELSE Of(TsFindComponent(md, componentName))

TsGetCompletions(context, md) ==
    CASE context.position = "component_name" ->
             TsGetComponentCompletions(md, context.currentValue)
      [] context.position = "attribute_name" ->
             TsGetAttributeCompletions(md, context.componentName)
      [] context.position = "handler_name" ->
             TsGetHandlerCompletions(md, context.componentName)
      [] context.position = "event_name" -> TsGetEventCompletions
      [] context.position = "modifier" ->
             TsGetModifierCompletions(md, context.currentValue)
      [] context.position = "slot_name" ->
             TsGetSlotCompletions(md, context.componentName)
      [] OTHER -> {}

\* connection.onCompletion: the list for the context at the offset, or the
\* empty list while no metadata is loaded.
\* definition.ts: a location, or null.
NoLocation == [found |-> FALSE]
Location(file_path, line) ==
    [found |-> TRUE, uri |-> "file://" \o file_path, line |-> line]

TsGetComponentDefinition(md, componentName) ==
    LET Of(component) ==
            IF ~component.found \/ component.file_path = "" THEN NoLocation
            ELSE Location(component.file_path, component.line_number - 1)
    IN  IF componentName \in {Nil, ""} THEN NoLocation
        ELSE Of(TsFindComponent(md, componentName))

TsGetHandlerDefinition(md, componentName, handlerName) ==
    LET Of(component) ==
            IF ~component.found \/ component.file_path = "" THEN NoLocation
            ELSE IF ~(handlerName \in DOMAIN component.methods) THEN NoLocation
            ELSE Location(component.file_path,
                          (IF component.methods[handlerName].line_number # 0
                           THEN component.methods[handlerName].line_number
                           ELSE component.line_number) - 1)
    IN  IF componentName \in {Nil, ""} \/ handlerName \in {Nil, ""} THEN NoLocation
        ELSE Of(TsFindComponent(md, componentName))

TsGetDefinition(context, md) ==
    CASE context.position = "component_name" ->
            TsGetComponentDefinition(md, context.currentValue)
      [] context.position = "handler_name" ->
            TsGetHandlerDefinition(md, context.componentName, context.currentValue)
      [] OTHER -> NoLocation

TsOnDefinition(md, context) ==
    IF ~md.loaded THEN NoLocation ELSE TsGetDefinition(context, md)

TsOnCompletion(md, context) ==
    IF ~md.loaded THEN {} ELSE TsGetCompletions(context, md)

KtGetComponent(md, name) ==
    IF ~md.loaded THEN NoComponent ELSE ComponentNamed(md.components, name)

\* getAsyncMethods without the isAsync test.
KtGetAsyncMethodsAnyMethod(md, componentName) ==
    LET Of(component) ==
            IF ~component.found THEN {}
            ELSE {name \in DOMAIN component.methods :
                     ~(name \in KtExcludedMethods)}
    IN  Of(KtGetComponent(md, componentName))

KtGetAsyncMethods(md, componentName) ==
    LET Of(component) ==
            IF ~component.found THEN {}
            ELSE {name \in DOMAIN component.methods :
                     /\ component.methods[name].is_async
                     /\ ~(name \in KtExcludedMethods)}
    IN  Of(KtGetComponent(md, componentName))

KtAddHandlerCompletions(md, componentName, prefix) ==
    LET lowerPrefix == LowerPrefix(prefix)
    IN  {name \in KtGetAsyncMethods(md, componentName) :
            lowerPrefix = "" \/ StartsWith(ToLowerCase(name), lowerPrefix)}

LuaIsExcludedMethod(method_name) ==
    \E excluded \in LuaExcludedMethods : method_name = excluded

LuaGetComponent(md, name) ==
    IF ~md.loaded THEN NoComponent ELSE ComponentNamed(md.components, name)

LuaGetAsyncMethods(md, component_name) ==
    LET Of(component) ==
            IF ~component.found THEN {}
            ELSE {name \in DOMAIN component.methods : component.methods[name].is_async}
    IN  Of(LuaGetComponent(md, component_name))

LuaGetHandlerCompletions(md, component_name, prefix) ==
    LET lower_prefix == LowerPrefix(prefix)
    IN  {name \in LuaGetAsyncMethods(md, component_name) :
            /\ ~LuaIsExcludedMethod(name)
            /\ (lower_prefix = ""
                  \/ SubSeq(ToLowerCase(name), 1, Min2(Len(lower_prefix), Len(name)))
                        = lower_prefix)}

(***************************************************************************)
(* Editor sessions                                                         *)
(*                                                                         *)
(* A session types a template fragment by fragment and, at any moment,     *)
(* asks one of the parsers about an offset.  The scenario fixes which      *)
(* fragments can be typed at which step.                                   *)
(***************************************************************************)

\* Bounds of the model.
MaxTokens == 5      \* fragments of a "locator" document
MaxBlocks == 3      \* block tags before the last tag of a "nested" document
MaxBeyond == 1      \* how far past the end, or before the start, an offset may lie

\* Delimiters and filler, concatenated freely.
Tokens == {"{%", "%}", "x", "%"}

\* One tag: opening delimiter, first word, remainder.
Openers == {"{%", "{% ", "{%-", "{%- "}
Words   == {"component", "component_block", "on", "fill", "render_slot",
            "endcomponent_block", "if", ""}
Tails   == {" 'A' %}", " %}", " \"Ab\" c='d' e %}"}

\* An on tag: opening, event string, gap, handler string, end.
OnOpeners      == {"{% on ", "{%- on ", "{%on  "}
EventStrings   == {"'click'", "\"click\"", "'click.prevent.debounce'", "'a.b'", "'.x'", "''"}
Gaps           == {" ", "  ", ""}
HandlerStrings == {"'x'", "\"inc\"", "''", ""}
Closers        == {" %}", "%}", " a='1' %}"}

\* A component tag: opening with keyword, name string, attribute key,
\* assignment, end.
CompOpeners == {"{% component ", "{%component_block  "}
CompNames   == {"'Ab'", "\"A\"", "'on'", "''", "' a='"}
AttrKeys    == {" count", " a_b", ""}
Assignments == {"", "=", "=12", "='par'", "=\"a b\""}
CompClosers == {" %}", "%}"}

\* A fill or render_slot tag: opening with keyword, slot name, end.
SlotOpeners == {"{% fill ", "{% render_slot ", "{%fill  "}
SlotNames   == {"head", "'head'", "\"a_b\"", "a_b", ""}
SlotClosers == {" %}", "%}", " let:x %}"}

\* Block tags, then one tag nested in them.
OpenBlocks  == {"{% component_block 'Outer' %}", "{%- component_block \"Inner\" %}"}
NamedTags   == {"{% component 'app:Inner' %}", "{% component \"app.live.Outer\" %}",
                "{% component 'In' %}"}
CloseBlocks == {"{% endcomponent_block %}"}
NestedTags  == {"{% on 'click' '' %}", "{% on \"a.b\" \"inc\" %}", "{% fill head %}",
                "{% render_slot 'a' %}"}

\* Metadata: the two components of the block tags, each with the same four
\* methods, of which any can be async; two of the names are base methods.
MethodNames    == {"inc", "Incr", "dict", "stream"}
ComponentNames == {"Outer", "Inner"}
ModifierNames  == {"prevent", "debounce", "_x", "inlinejs"}
MetadataOf(async) ==
    [loaded |-> TRUE,
     components |->
        [n \in ComponentNames |->
            [found |-> TRUE, fqn |-> "app.live." \o n, app_key |-> "app:" \o n,
             file_path |-> "/app/live/" \o n \o ".py", line_number |-> Len(n) + 2,
             fields |-> {"count"}, slots |-> {"head"},
             methods |-> [m \in MethodNames |->
                            [is_async |-> m \in async, line_number |-> 10 * Len(m)]]]],
     modifiers |-> ModifierNames]
MetadataPool == {MetadataOf(async) : async \in SUBSET MethodNames}

\* Component names and prefixes a handler completion can be asked for.
AskedNames    == {"Outer", "app:Inner", "app.live.Outer", "Nope"}
AskedPrefixes == {Nil, "", "in", "IN", "d"}
NoRequest     == [componentName |-> Nil, prefix |-> Nil]

\* Prefixes a component completion can be asked for.
TypedPrefixes == {Nil, "", "ou", "IN", "app", "app:o", "APP.live.I", "x"}

\* The fragments of a scenario typed one after the other.
Slots(sc) ==
    CASE sc = "classify" -> <<Openers, Words, Tails>>
      [] sc = "on"       -> <<OnOpeners, EventStrings, Gaps, HandlerStrings, Closers>>
      [] sc = "component" -> <<CompOpeners, CompNames, AttrKeys, Assignments, CompClosers>>
      [] sc = "slot"     -> <<SlotOpeners, SlotNames, SlotClosers>>

\* What can be typed after the fragments ty.
NextFragments(sc, ty) ==
    CASE sc = "locator" -> IF Len(ty) < MaxTokens THEN Tokens ELSE {}
      [] sc \in {"nested", "range"} ->
            IF ty # <<>> /\ ty[Len(ty)] \in NestedTags THEN {}
            ELSE NestedTags \cup
                 (IF Len(ty) < MaxBlocks THEN OpenBlocks \cup CloseBlocks ELSE {})
      [] sc = "complete" ->
            IF ty # <<>> /\ ty[Len(ty)] \in NestedTags THEN {}
            ELSE NestedTags \cup (IF ty = <<>> THEN OpenBlocks \cup NamedTags ELSE {})
      [] OTHER -> IF Len(ty) < Len(Slots(sc)) THEN Slots(sc)[Len(ty) + 1] ELSE {}

\* Offsets an operation can be asked about: anywhere in the text or up to
\* MaxBeyond past its end; in a "range" document, the offsets around its
\* two ends, from MaxBeyond before the start to MaxBeyond past the end;
\* in a "nested" document, where the text before
\* the last fragment was the whole text of an earlier state, from the start
\* of the fragment typed last.
Offsets ==
    IF scenario = "range"
    THEN ((0 - MaxBeyond)..0) \cup ((Len(buffer) - 1)..(Len(buffer) + MaxBeyond))
    ELSE IF scenario \in {"nested", "complete"} /\ typed # <<>>
    THEN (Len(buffer) - Len(typed[Len(typed)]))..(Len(buffer) + MaxBeyond)
    ELSE 0..(Len(buffer) + MaxBeyond)

Start(sc) ==
    /\ scenario = sc
    /\ typed = <<>>
    /\ buffer = ""
    /\ call = "none"
    /\ cursor = 0
    /\ located = NoTag
    /\ ctx = DefaultCtx
    /\ parent = Nil
    /\ metadata = NoMetadata
    /\ asked = NoRequest
    /\ offered = {}
    /\ target = NoLocation
    /\ now = StartNow
    /\ project = {}
    /\ IF sc = "refresh" THEN TRUE ELSE disk = NoFile /\ tz = 0
    /\ refreshing = FALSE
    /\ jobs = {}
    /\ calls = <<>>
    /\ timers = <<>>
    /\ refresh_timer = NoTimer

\* The user types the next fragment; earlier results are stale.
Type(f) ==
    /\ f \in NextFragments(scenario, typed)
    /\ typed' = Append(typed, f)
    /\ buffer' = buffer \o f
    /\ call' = "none"
    /\ cursor' = Len(buffer')
    /\ located' = NoTag
    /\ ctx' = DefaultCtx
    /\ parent' = Nil
    /\ asked' = NoRequest
    /\ offered' = {}
    /\ target' = NoLocation
    /\ UNCHANGED <<scenario, metadata>>
    /\ UNCHANGED refreshVars

Located(op, o, result) ==
    /\ call = "none"
    /\ o \in Offsets
    /\ call' = op
    /\ cursor' = o
    /\ located' = result
    /\ ctx' = DefaultCtx
    /\ parent' = Nil
    /\ UNCHANGED <<scenario, typed, buffer, metadata, asked, offered, target>>
    /\ UNCHANGED refreshVars

Answered(op, o, result) ==
    /\ call = "none"
    /\ o \in Offsets
    /\ call' = op
    /\ cursor' = o
    /\ located' = NoTag
    /\ ctx' = result
    /\ parent' = Nil
    /\ UNCHANGED <<scenario, typed, buffer, metadata, asked, offered, target>>
    /\ UNCHANGED refreshVars

Resolved(op, o, result) ==
    /\ call = "none"
    /\ o \in Offsets /\ o <= Len(buffer)
    /\ call' = op
    /\ cursor' = o
    /\ located' = NoTag
    /\ ctx' = DefaultCtx
    /\ parent' = result
    /\ UNCHANGED <<scenario, typed, buffer, metadata, asked, offered, target>>
    /\ UNCHANGED refreshVars

CallTsFindEnclosingTag  == \E o \in Offsets : Located("ts.findEnclosingTag", o, TsFindEnclosingTag(buffer, o))
CallKtFindEnclosingTag  == \E o \in Offsets : Located("kt.findEnclosingTag", o, KtFindEnclosingTag(buffer, o))
CallLuaFindEnclosingTag == \E o \in Offsets : Located("lua.find_enclosing_tag", o, LuaFindEnclosingTag(buffer, o))

CallTsGetCursorContext  == \E o \in Offsets : Answered("ts.getCursorContext", o, TsGetCursorContext(buffer, o))
CallKtGetCursorContext  == \E o \in Offsets : Answered("kt.getCursorContextFromString", o, KtGetCursorContextFromString(buffer, o))
CallLuaGetCursorContext == \E o \in Offsets : Answered("lua.get_cursor_context_from_string", o, LuaGetCursorContextFromString(buffer, o))

\* A completion request at an offset of the text: the context the handler
\* computed and the list it returned.
Completed(op, o, context, result) ==
    /\ call = "none"
    /\ o \in Offsets
    /\ call' = op
    /\ cursor' = o
    /\ located' = NoTag
    /\ ctx' = context
    /\ parent' = Nil
    /\ asked' = NoRequest
    /\ offered' = result
    /\ UNCHANGED <<scenario, typed, buffer, metadata, target>>
    /\ UNCHANGED refreshVars

\* A definition request at an offset of the text: the context the handler
\* computed and the location it returned.
Defined(op, o, context, result) ==
    /\ call = "none"
    /\ o \in Offsets
    /\ call' = op
    /\ cursor' = o
    /\ located' = NoTag
    /\ ctx' = context
    /\ parent' = Nil
    /\ target' = result
    /\ UNCHANGED <<scenario, typed, buffer, metadata, asked, offered>>
    /\ UNCHANGED refreshVars

\* A handler completion for a component name and a typed prefix.
Listed(op, name, prefix, result) ==
    /\ call = "none"
    /\ call' = op
    /\ asked' = [componentName |-> name, prefix |-> prefix]
    /\ offered' = result
    /\ located' = NoTag
    /\ ctx' = DefaultCtx
    /\ parent' = Nil
    /\ UNCHANGED <<scenario, typed, buffer, cursor, metadata, target>>
    /\ UNCHANGED refreshVars

\* The metadata is loaded or refreshed.
Loaded(md) ==
    /\ call = "none"
    /\ metadata' = md
    /\ UNCHANGED <<scenario, typed, buffer, call, cursor, located, ctx, parent,
                   asked, offered, target>>
    /\ UNCHANGED refreshVars

CallKtFindParentComponent  == \E o \in Offsets : Resolved("kt.findParentComponent", o, KtFindParentComponent(buffer, o))
CallLuaFindParentComponent == \E o \in Offsets : Resolved("lua.find_parent_component", o, LuaFindParentComponent(buffer, o))

\* document.offsetAt(position): the offset of a position, kept within the text.
OffsetAt(text, o) == IF o < 0 THEN 0 ELSE Min2(o, Len(text))

CallTsOnCompletion ==
    \E o \in Offsets :
        LET Return(context) ==
                Completed("ts.onCompletion", o, context, TsOnCompletion(metadata, context))
        IN  Return(TsGetCursorContext(buffer, OffsetAt(buffer, o)))
CallTsOnDefinition ==
    \E o \in Offsets :
        LET Return(context) ==
                Defined("ts.onDefinition", o, context, TsOnDefinition(metadata, context))
        IN  Return(TsGetCursorContext(buffer, OffsetAt(buffer, o)))
CallTsGetHandlerCompletions ==
    \E name \in AskedNames :
        /\ metadata.loaded
        /\ Listed("ts.getHandlerCompletions", name, Nil,
                  TsGetHandlerCompletions(metadata, name))
CallTsGetComponentCompletions ==
    \E prefix \in TypedPrefixes :
        /\ metadata.loaded
        /\ Listed("ts.getComponentCompletions", Nil, prefix,
                  TsGetComponentCompletions(metadata, prefix))
CallKtAddHandlerCompletions ==
    \E name \in AskedNames, prefix \in AskedPrefixes :
        Listed("kt.addHandlerCompletions", name, prefix,
               KtAddHandlerCompletions(metadata, name, prefix))
CallLuaGetHandlerCompletions ==
    \E name \in AskedNames, prefix \in AskedPrefixes :
        Listed("lua.get_handler_completions", name, prefix,
               LuaGetHandlerCompletions(metadata, name, prefix))
LoadMetadata == \E md \in MetadataPool : Loaded(md)

TypeFragment == \E f \in NextFragments(scenario, typed) : Type(f)

\* Tag locators on free concatenations of delimiters.
InitLocator == Start("locator")
NextLocator ==
    \/ TypeFragment
    \/ CallTsFindEnclosingTag
    \/ CallKtFindEnclosingTag
    \/ CallLuaFindEnclosingTag
SpecLocator == InitLocator /\ [][NextLocator]_vars

\* The full pipeline on single tags and on tags nested in blocks.
Init == \E sc \in {"classify", "on"} : Start(sc)
Next ==
    \/ TypeFragment
    \/ CallTsGetCursorContext
    \/ CallKtGetCursorContext
    \/ CallLuaGetCursorContext
Spec == Init /\ [][Next]_vars

\* Parent-component resolution on interleaved block tags.
InitParent == Start("nested")
NextParent ==
    \/ TypeFragment
    \/ CallKtFindParentComponent
    \/ CallLuaFindParentComponent
SpecParent == InitParent /\ [][NextParent]_vars

InitNested == Start("nested")
SpecNested == InitNested /\ [][Next]_vars

\* The full pipeline on component tags with an attribute.
InitComponent == Start("component")
SpecComponent == InitComponent /\ [][Next]_vars

\* The full pipeline on fill and render_slot tags.
InitSlot == Start("slot")
SpecSlot == InitSlot /\ [][Next]_vars

\* Completion requests on on tags inside blocks, with metadata.
InitCompletion == Start("complete")
NextCompletion ==
    \/ TypeFragment
    \/ LoadMetadata
    \/ CallTsOnCompletion
    \/ CallTsOnDefinition
    \/ CallTsGetHandlerCompletions
    \/ CallTsGetComponentCompletions
    \/ CallKtAddHandlerCompletions
    \/ CallLuaGetHandlerCompletions
SpecCompletion == InitCompletion /\ [][NextCompletion]_vars

\* The full pipeline asked about offsets at and beyond the ends of the text.
InitRange == Start("range")
SpecRange == InitRange /\ [][Next]_vars

(***************************************************************************)
(* Metadata refresh: the clock, the project, the cache file                *)
(***************************************************************************)

\* At most this many refresh calls in a run.
MaxCalls == 2

\* The instants of a run, in milliseconds since the epoch: around the five
\* minutes after the first.
Instants == {StartNow + d : d \in {0, 1000, 300000, 301000}}

\* Offsets of local time from UTC, in seconds east of Greenwich.
TimeZones == {-3600, 0, 32400}

\* The Python code of the project, told apart by its async methods.
ProjectPool == {{}, {"Incr"}}

\* What wireview_lsp writes: the metadata of the code, with generated_at the
\* UTC instant of the run in whole seconds ("2024-01-15T10:00:00Z").
Extracted(code, at) ==
    [loaded |-> TRUE, generated_at |-> at \div 1000,
     components |-> MetadataOf(code).components, modifiers |-> ModifierNames]

\* The cache file: a metadata document, a file that is no JSON, or no file.
CacheFile(md) == [exists |-> TRUE, parseable |-> TRUE, content |-> md]
Garbage == [exists |-> TRUE, parseable |-> FALSE]
StartFiles ==
    {NoFile, Garbage}
        \cup {CacheFile(Extracted({"Incr"}, at)) : at \in {0, StartNow - 1000}}

\* A refresh call: when, on which code and on which cache file it was made,
\* the metadata in memory before it and after it ended, whether the refreshing flag was set
\* when it was made, whether an extractor was started
\* for it, whether another call was under way during it, the results its
\* callback or promise delivered, the thread it runs on and where it stands.
Call(at, code, before) ==
    [requested |-> at, project |-> code, file |-> disk, before |-> before,
     after |-> before,
     busy |-> refreshing, ran |-> FALSE, overlapped |-> FALSE, callbacks |-> <<>>,
     thread |-> "main", pc |-> "start"]
Pending == {i \in DOMAIN calls : calls[i].pc # "done"}

\* A call ends with a result, the metadata then in memory being md.
Ended(made, result, md) ==
    [made EXCEPT !.callbacks = Append(@, result), !.after = md, !.pc = "done"]

\* A new call is made: calls under way are no longer alone.
Overlap(cs) ==
    [i \in DOMAIN cs |->
        IF cs[i].pc # "done" THEN [cs[i] EXCEPT !.overlapped = TRUE] ELSE cs[i]]
Made(made) ==
    Append(Overlap(calls), [made EXCEPT !.overlapped = Pending # {}])

StartRefresh(files, zones) ==
    /\ Start("refresh")
    /\ disk \in files
    /\ tz \in zones

\* Time passes.
Tick ==
    /\ \E t \in Instants : t > now /\ now' = t
    /\ UNCHANGED <<tz, project, disk, refreshing, jobs, calls, timers, refresh_timer>>
    /\ UNCHANGED editorVars

\* The user edits the Python code of the project.
EditPython ==
    /\ \E code \in ProjectPool : code # project /\ project' = code
    /\ UNCHANGED <<now, tz, disk, refreshing, jobs, calls, timers, refresh_timer>>
    /\ UNCHANGED editorVars

(***************************************************************************)
(* Metadata refresh of the VSCode server                                   *)
(***************************************************************************)

\* new Date(generated_at).getTime()
DateOf(generated_at) == 1000 * generated_at

\* loadFromCache: the metadata then in memory and the value returned.
VsLoadFromCache(file, md, t) ==
    IF ~file.exists THEN [metadata |-> md, recent |-> FALSE]
    ELSE IF ~file.parseable THEN [metadata |-> md, recent |-> FALSE]
    ELSE [metadata |-> file.content,
          recent |-> t - DateOf(file.content.generated_at) < MaxAgeMs]

\* refresh() up to the return, the rejection or the spawn of the extractor;
\* managePy tells whether findManagePy finds a manage.py.
VsRefresh(managePy) ==
    LET Body(i, made, cache) ==
            /\ metadata' = cache.metadata
            /\ IF cache.recent
               THEN /\ calls' = Made(Ended(made, TRUE, cache.metadata))
                    /\ jobs' = jobs
               ELSE IF ~managePy
               THEN /\ calls' = Made(Ended(made, FALSE, cache.metadata))
                    /\ jobs' = jobs
               ELSE /\ calls' = Made([made EXCEPT !.ran = TRUE, !.pc = "job"])
                    /\ jobs' = jobs \cup {i}
    IN  /\ Len(calls) < MaxCalls
        /\ Body(Len(calls) + 1, Call(now, project, metadata),
                VsLoadFromCache(disk, metadata, now))
        /\ UNCHANGED <<now, tz, project, disk, refreshing, timers, refresh_timer>>
        /\ UNCHANGED <<scenario, typed, buffer, call, cursor, located, ctx, parent,
                       asked, offered, target>>

\* connection.onInitialized and the request wireview/refreshMetadata.
VsRefreshMetadata == \E managePy \in BOOLEAN : VsRefresh(managePy)

\* child.on("close"): the extractor of call i ends with an exit code; with
\* exit code 0 it has written the cache file.
VsOnClose(i, code) ==
    LET Body(file, cache) ==
            IF code = 0
            THEN /\ disk' = file
                 /\ metadata' = cache.metadata
                 /\ calls' = [calls EXCEPT ![i] = Ended(@, TRUE, cache.metadata)]
            ELSE /\ disk' = disk
                 /\ metadata' = metadata
                 /\ calls' = [calls EXCEPT ![i] = Ended(@, FALSE, metadata)]
    IN  /\ i \in jobs
        /\ jobs' = jobs \ {i}
        /\ Body(CacheFile(Extracted(project, now)),
                VsLoadFromCache(CacheFile(Extracted(project, now)), metadata, now))
        /\ UNCHANGED <<now, tz, project, refreshing, timers, refresh_timer>>
        /\ UNCHANGED <<scenario, typed, buffer, call, cursor, located, ctx, parent,
                       asked, offered, target>>

VsExtractorCloses == \E i \in jobs, code \in {0, 1} : VsOnClose(i, code)

\* child.on("error"): the extractor of call i could not be spawned.
VsOnError(i) ==
    /\ i \in jobs
    /\ jobs' = jobs \ {i}
    /\ calls' = [calls EXCEPT ![i] = Ended(@, FALSE, metadata)]
    /\ UNCHANGED <<now, tz, project, disk, refreshing, timers, refresh_timer>>
    /\ UNCHANGED editorVars

VsSpawnFails == \E i \in jobs : VsOnError(i)

InitVscode == StartRefresh(StartFiles, {0})
NextVscode ==
    \/ Tick
    \/ EditPython
    \/ VsRefreshMetadata
    \/ VsExtractorCloses
    \/ VsSpawnFails
SpecVscode == InitVscode /\ [][NextVscode]_vars

(***************************************************************************)
(* Metadata refresh of the Neovim plugin                                   *)
(***************************************************************************)

\* cache_ttl of the default configuration, in seconds.
LuaCacheTtl == 300

\* parse_timestamp: os.time of the year, month, day, hour, minute and second
\* written in generated_at, which os.time takes for local time.
LuaParseTimestamp(generated_at, zone) == generated_at - zone

\* is_cache_valid at the instant t in the time zone zone.
LuaIsCacheValid(generated_at, ttl, t, zone) ==
    (t \div 1000) - LuaParseTimestamp(generated_at, zone) < ttl

\* M.load: the metadata then in memory and the value returned.
LuaLoad(file, md) ==
    IF ~file.exists \/ ~file.parseable THEN [metadata |-> md, success |-> FALSE]
    ELSE [metadata |-> file.content, success |-> TRUE]

\* M.refresh(callback) without the test of is_refreshing.
LuaRefreshUnguarded(manage_py, started) ==
    LET Body(i, made, cache) ==
            /\ metadata' = cache.metadata
            /\ IF cache.success
                  /\ LuaIsCacheValid(cache.metadata.generated_at, LuaCacheTtl, now, tz)
               THEN /\ calls' = Made(Ended(made, TRUE, cache.metadata))
                    /\ UNCHANGED <<refreshing, jobs>>
               ELSE IF ~manage_py
               THEN /\ calls' = Made(Ended(made, FALSE, cache.metadata))
                    /\ UNCHANGED <<refreshing, jobs>>
               ELSE /\ refreshing' = TRUE
                    /\ calls' = Made([made EXCEPT !.ran = started, !.pc = "job"])
                    /\ jobs' = IF started THEN jobs \cup {i} ELSE jobs
    IN  /\ Len(calls) < MaxCalls
        /\ Body(Len(calls) + 1, Call(now, project, metadata), LuaLoad(disk, metadata))
        /\ UNCHANGED <<now, tz, project, disk>>
        /\ UNCHANGED <<scenario, typed, buffer, call, cursor, located, ctx, parent,
                       asked, offered, target>>

\* M.refresh(callback) up to its return; manage_py tells whether
\* find_manage_py finds a manage.py, started whether jobstart starts the job.
LuaRefresh(manage_py, started) ==
    IF refreshing
    THEN /\ Len(calls) < MaxCalls
         /\ calls' = Made(Ended(Call(now, project, metadata), FALSE, metadata))
         /\ UNCHANGED <<now, tz, project, disk, refreshing, jobs>>
         /\ UNCHANGED editorVars
    ELSE LuaRefreshUnguarded(manage_py, started)

\* :WireviewRefresh and the refresh at start-up.
LuaWireviewRefresh ==
    /\ \E manage_py \in BOOLEAN, started \in BOOLEAN : LuaRefresh(manage_py, started)
    /\ UNCHANGED <<timers, refresh_timer>>

\* on_exit of the job of call i; with exit code 0 the extractor has written
\* the cache file.
LuaOnExit(i, code) ==
    LET Body(file, cache) ==
            IF code = 0
            THEN /\ disk' = file
                 /\ metadata' = cache.metadata
                 /\ calls' = [calls EXCEPT ![i] = Ended(@, cache.success, cache.metadata)]
            ELSE /\ disk' = disk
                 /\ metadata' = metadata
                 /\ calls' = [calls EXCEPT ![i] = Ended(@, FALSE, metadata)]
    IN  /\ i \in jobs
        /\ jobs' = jobs \ {i}
        /\ refreshing' = FALSE
        /\ Body(CacheFile(Extracted(project, now)),
                LuaLoad(CacheFile(Extracted(project, now)), metadata))
        /\ UNCHANGED <<now, tz, project>>
        /\ UNCHANGED <<scenario, typed, buffer, call, cursor, located, ctx, parent,
                       asked, offered, target>>

LuaJobExits == \E i \in jobs, code \in {0, 1} : LuaOnExit(i, code)
LuaJobExitsQuietly == LuaJobExits /\ UNCHANGED <<timers, refresh_timer>>

InitNvim == StartRefresh(StartFiles, TimeZones)
NextNvim ==
    \/ Tick
    \/ EditPython
    \/ LuaWireviewRefresh
    \/ LuaJobExitsQuietly
SpecNvim == InitNvim /\ [][NextNvim]_vars

\* Every job that runs ends at some time.
SpecNvimFair == SpecNvim /\ WF_vars(LuaJobExitsQuietly)

(***************************************************************************)
(* Refresh on save of the Neovim plugin                                    *)
(***************************************************************************)

\* At most this many saves of a Python file in a run, and the run lasts this
\* many half seconds.
MaxSaves == 2
MaxHalfSeconds == 6

DebounceMs == 1000

\* The timers that were started and have neither fired nor been stopped.
PendingTimers == {k \in DOMAIN timers : timers[k].state = "pending"}

\* vim.fn.timer_stop(id): a pending timer is stopped, any other is left.
TimerStop(ts, id) ==
    IF id \in DOMAIN ts /\ ts[id].state = "pending"
    THEN [ts EXCEPT ![id].state = "stopped"]
    ELSE ts

\* vim.fn.timer_start(time, callback) at the instant t.
TimerStart(ts, time, t) ==
    Append(ts, [started |-> t, due |-> t + time, state |-> "pending", fired |-> 0])

\* The BufWritePost callback without the timer_stop.
LuaOnSaveNoStop ==
    /\ Len(timers) < MaxSaves
    /\ timers' = TimerStart(timers, DebounceMs, now)
    /\ refresh_timer' = Len(timers')
    /\ UNCHANGED <<now, tz, project, disk, refreshing, jobs, calls>>
    /\ UNCHANGED editorVars

\* The BufWritePost callback of setup_autocommands: a Python file was saved.
LuaOnSave ==
    /\ Len(timers) < MaxSaves
    /\ timers' = TimerStart(IF refresh_timer # NoTimer THEN TimerStop(timers, refresh_timer)
                            ELSE timers,
                            DebounceMs, now)
    /\ refresh_timer' = Len(timers')
    /\ UNCHANGED <<now, tz, project, disk, refreshing, jobs, calls>>
    /\ UNCHANGED editorVars

\* The callback of the timer k, which is due: M.refresh(), then
\* refresh_timer = nil.
LuaOnTimer(k, manage_py, started) ==
    /\ k \in PendingTimers
    /\ timers[k].due <= now
    /\ LuaRefresh(manage_py, started)
    /\ timers' = [timers EXCEPT ![k].state = "fired", ![k].fired = now]
    /\ refresh_timer' = NoTimer

LuaTimerFires ==
    \E k \in PendingTimers, manage_py \in BOOLEAN, started \in BOOLEAN :
        LuaOnTimer(k, manage_py, started)

\* Half a second passes; the event loop is idle, so that a timer that is due
\* has fired before.
HalfSecond ==
    /\ now < StartNow + 500 * MaxHalfSeconds
    /\ \A k \in PendingTimers : timers[k].due > now
    /\ now' = now + 500
    /\ UNCHANGED <<tz, project, disk, refreshing, jobs, calls, timers, refresh_timer>>
    /\ UNCHANGED editorVars

InitDebounce == StartRefresh({NoFile}, {0})
NextDebounce ==
    \/ HalfSecond
    \/ LuaOnSave
    \/ LuaTimerFires
    \/ LuaJobExitsQuietly
SpecDebounce == InitDebounce /\ [][NextDebounce]_vars

(***************************************************************************)
(* Metadata refresh of the PyCharm plugin                                  *)
(***************************************************************************)

\* cacheTtl of the default settings, in seconds.
KtCacheTtl == 300

\* The threads refresh is called on: the start-up activity runs on a
\* background thread, the Refresh Metadata action on the UI thread.
Threads == {"startup", "edt"}

\* load(): the metadata then in memory and the value returned.
KtLoad(file, md) ==
    IF ~file.exists THEN [metadata |-> md, success |-> FALSE]
    ELSE IF ~file.parseable THEN [metadata |-> md, success |-> FALSE]
    ELSE [metadata |-> file.content, success |-> TRUE]

\* isCacheValid() at the instant t.
KtIsCacheValid(md, t) ==
    IF ~md.loaded THEN FALSE
    ELSE (t - 1000 * md.generated_at) \div 1000 < KtCacheTtl

\* The calls that are between the entry of refresh and its return on the
\* thread th.
InRefresh(th) ==
    {i \in DOMAIN calls : calls[i].thread = th /\ calls[i].pc \in {"checked", "found"}}

KtUnchanged ==
    /\ UNCHANGED <<now, tz, project, timers, refresh_timer>>
    /\ UNCHANGED <<scenario, typed, buffer, call, cursor, located, ctx, parent,
                   asked, offered, target>>

\* refresh(callback) is entered on the thread th and tests isRefreshing.
KtEnter(th) ==
    LET Body(made) ==
            IF refreshing
            THEN calls' = Made(Ended(made, FALSE, metadata))
            ELSE calls' = Made([made EXCEPT !.pc = "checked"])
    IN  /\ Len(calls) < MaxCalls
        /\ InRefresh(th) = {}
        /\ Body([Call(now, project, metadata) EXCEPT !.thread = th])
        /\ UNCHANGED <<metadata, disk, refreshing, jobs>>
        /\ KtUnchanged

\* load() && isCacheValid(), then findManagePy().
KtTryCache(i, managePy) ==
    LET Body(cache) ==
            /\ metadata' = cache.metadata
            /\ IF cache.success /\ KtIsCacheValid(cache.metadata, now)
               THEN calls' = [calls EXCEPT ![i] = Ended(@, TRUE, cache.metadata)]
               ELSE IF ~managePy
               THEN calls' = [calls EXCEPT ![i] = Ended(@, FALSE, cache.metadata)]
               ELSE calls' = [calls EXCEPT ![i].pc = "found"]
    IN  /\ i \in DOMAIN calls
        /\ calls[i].pc = "checked"
        /\ Body(KtLoad(disk, metadata))
        /\ UNCHANGED <<disk, refreshing, jobs>>
        /\ KtUnchanged

\* isRefreshing = true and executeOnPooledThread.
KtSetRefreshing(i) ==
    /\ i \in DOMAIN calls
    /\ calls[i].pc = "found"
    /\ refreshing' = TRUE
    /\ calls' = [calls EXCEPT ![i].pc = "pooled"]
    /\ UNCHANGED <<metadata, disk, jobs>>
    /\ KtUnchanged

\* processBuilder.start() on the pooled thread: the process runs, or the
\* start throws.
KtProcessStart(i, started) ==
    /\ i \in DOMAIN calls
    /\ calls[i].pc = "pooled"
    /\ IF started
       THEN /\ jobs' = jobs \cup {i}
            /\ calls' = [calls EXCEPT ![i].ran = TRUE, ![i].pc = "job"]
       ELSE /\ jobs' = jobs
            /\ calls' = [calls EXCEPT ![i].pc = "later:exception"]
    /\ UNCHANGED <<metadata, disk, refreshing>>
    /\ KtUnchanged

\* process.waitFor() returns; with exit code 0 the extractor has written
\* the cache file.
KtWaitFor(i, exitCode) ==
    /\ i \in jobs
    /\ jobs' = jobs \ {i}
    /\ disk' = IF exitCode = 0 THEN CacheFile(Extracted(project, now)) ELSE disk
    /\ calls' = [calls EXCEPT ![i].pc = IF exitCode = 0 THEN "later:0" ELSE "later:1"]
    /\ UNCHANGED <<metadata, refreshing>>
    /\ KtUnchanged

\* The block handed to invokeLater runs on the UI thread.
KtInvokeLater(i) ==
    LET Body(cache) ==
            IF calls[i].pc = "later:0"
            THEN /\ metadata' = cache.metadata
                 /\ calls' = [calls EXCEPT ![i] = Ended(@, cache.success, cache.metadata)]
            ELSE /\ metadata' = metadata
                 /\ calls' = [calls EXCEPT ![i] = Ended(@, FALSE, metadata)]
    IN  /\ i \in DOMAIN calls
        /\ calls[i].pc \in {"later:0", "later:1", "later:exception"}
        /\ InRefresh("edt") = {}
        /\ refreshing' = FALSE
        /\ Body(KtLoad(disk, metadata))
        /\ UNCHANGED <<disk, jobs>>
        /\ KtUnchanged

KtRefreshCalled     == \E th \in Threads : KtEnter(th)
KtCacheTried        == \E i \in DOMAIN calls, managePy \in BOOLEAN : KtTryCache(i, managePy)
KtFlagSet           == \E i \in DOMAIN calls : KtSetRefreshing(i)
KtProcessStarted    == \E i \in DOMAIN calls, started \in BOOLEAN : KtProcessStart(i, started)
KtProcessExited     == \E i \in jobs, exitCode \in {0, 1} : KtWaitFor(i, exitCode)
KtLaterRun          == \E i \in DOMAIN calls : KtInvokeLater(i)

InitPycharm == StartRefresh(StartFiles, {0})
NextPycharm ==
    \/ Tick
    \/ EditPython
    \/ KtRefreshCalled
    \/ KtCacheTried
    \/ KtFlagSet
    \/ KtProcessStarted
    \/ KtProcessExited
    \/ KtLaterRun
SpecPycharm == InitPycharm /\ [][NextPycharm]_vars

(***************************************************************************)
(* Properties of the tag locators                                          *)
(***************************************************************************)

\* The tags of a document as the template language delimits them: scanning
\* left to right from offset from, each "{%" closes at the nearest "%}"
\* after it and the scan resumes behind that "%}".  A span <<s, e>> has its
\* "{" at offset s and its final "}" at offset e - 1.
RECURSIVE TagSpans(_, _)
TagSpans(text, from) ==
    LET s == IndexOf(text, "{%", from)
        c == IF s = -1 THEN -1 ELSE IndexOf(text, "%}", s + 2)
    IN  IF s = -1 \/ c = -1 THEN {}
        ELSE {<<s, c + 2>>} \cup TagSpans(text, c + 2)

LocatorCalls == {"ts.findEnclosingTag", "kt.findEnclosingTag", "lua.find_enclosing_tag"}

\* The last locator call returned the tag of this span.
Returns(span) ==
    /\ located.found
    /\ located.startOffset = span[1]
    /\ located.content = Slice(buffer, span[1], span[2])

\* The boundary rule for the locators named in ops.
BoundaryHolds(ops) ==
    call \in ops =>
        \A span \in TagSpans(buffer, 0) :
            /\ cursor \in {span[1], span[2] - 1} => Returns(span)
            /\ cursor \in {span[1] - 1, span[2]} => ~Returns(span)

\* C1: for every terminated tag with its "{" at offset s and its final "}"
\* at offset e - 1, each of the three locators returns that tag for the
\* offsets s and e - 1 and does not return it for the offsets s - 1 and e.
C1_LocatorBoundary == BoundaryHolds(LocatorCalls)

\* The boundary rule does hold for the Kotlin and the Lua locator.
C1_KotlinLuaBoundary == BoundaryHolds({"kt.findEnclosingTag", "lua.find_enclosing_tag"})

\* A locator was asked about the offset just behind the final "}" of a tag.
C1_BehindTag ==
    /\ call \in LocatorCalls
    /\ \E span \in TagSpans(buffer, 0) : cursor = span[2]

\* The scan rule for the locators named in ops.  The offset just behind a
\* tag is left to the boundary rule above and not constrained here.
ScanHolds(ops) ==
    call \in ops =>
        LET spans  == TagSpans(buffer, 0)
            inside == {sp \in spans : sp[1] <= cursor /\ cursor < sp[2]}
        IN  /\ \A sp \in inside : Returns(sp)
            /\ (inside = {} /\ \A sp \in spans : cursor # sp[2]) => ~located.found

\* C2: the TS and the Kotlin locator find the tags of the left-to-right,
\* non-nesting scan: an offset inside a span returns that span, an offset in
\* no span returns nothing, and text outside the spans (an unmatched "%}",
\* an unterminated "{%", an earlier tag) does not change which tags are found.
C2_LocatorScan == ScanHolds({"ts.findEnclosingTag", "kt.findEnclosingTag"})

\* The scan rule does hold for the Kotlin locator.
C2_KotlinScan == ScanHolds({"kt.findEnclosingTag"})

\* A locator was asked about an offset inside a tag that follows an
\* unmatched "%}".
C2_TagBehindStrayClose ==
    /\ call \in {"ts.findEnclosingTag", "kt.findEnclosingTag"}
    /\ \E span \in TagSpans(buffer, 0) :
          /\ span[1] <= cursor /\ cursor < span[2]
          /\ IndexOf(buffer, "%}", 0) # -1
          /\ IndexOf(buffer, "%}", 0) < span[1]
          /\ IndexOf(buffer, "{%", 0) = span[1]

(***************************************************************************)
(* Properties of the classifier and of the returned context                *)
(***************************************************************************)

ContextCalls == {"ts.getCursorContext", "kt.getCursorContextFromString",
                 "lua.get_cursor_context_from_string"}

\* The five keywords of the template language and their tag kinds.
Keywords == {"component", "component_block", "on", "fill", "render_slot"}

\* One of the parsers named in ops was asked about an offset inside the one
\* complete tag of a "classify" document opened by one of openers.
InsideClassifiedTag(ops, openers) ==
    /\ scenario = "classify"
    /\ Len(typed) = 3
    /\ typed[1] \in openers
    /\ call \in ops
    /\ cursor < Len(buffer)

\* The kind reported for the tag is the kind of its first word; without a
\* keyword as first word the context is the default context.
KeywordMapped ==
    IF typed[2] \in Keywords
    THEN ctx.inWireviewTag /\ ctx.tagType = typed[2]
    ELSE ctx = DefaultCtx

\* C3: in all three parsers the first bareword behind the opening delimiter
\* is mapped component -> Component, component_block -> ComponentBlock,
\* on -> On, fill -> Fill, render_slot -> RenderSlot, and any other word or
\* no word gives the default context.
C3_KeywordMapping ==
    InsideClassifiedTag(ContextCalls, {"{%", "{% "}) => KeywordMapped

\* The mapping does hold in the TS and the Kotlin parser.
C3_TsKotlinKeywordMapping ==
    InsideClassifiedTag({"ts.getCursorContext", "kt.getCursorContextFromString"},
                        {"{%", "{% "}) => KeywordMapped

\* A parser was asked about an offset inside a render_slot tag.
C3_InsideRenderSlot ==
    /\ InsideClassifiedTag(ContextCalls, {"{%", "{% "})
    /\ typed[2] = "render_slot"

\* C4: in the Kotlin and the TS parser a tag opened with "{%-" is classified
\* like the same tag opened with "{%": for each of the five keywords the
\* context of an offset inside the tag has inWireviewTag and the keyword's kind.
C4_TrimMarker ==
    /\ InsideClassifiedTag({"ts.getCursorContext", "kt.getCursorContextFromString"},
                           {"{%-", "{%- "})
    /\ typed[2] \in Keywords
    => ctx.inWireviewTag /\ ctx.tagType = typed[2]

\* A parser was asked about an offset inside a trim-marked keyword tag.
C4_InsideTrimMarked ==
    /\ InsideClassifiedTag({"ts.getCursorContext", "kt.getCursorContextFromString"},
                           {"{%-", "{%- "})
    /\ typed[2] \in Keywords

\* C5: in all three parsers the returned context satisfies
\* position # Outside => inWireviewTag.
C5_PositionImpliesInTag ==
    call \in ContextCalls => (ctx.position # "outside" => ctx.inWireviewTag)

\* A parser has returned a position other than Outside.
C5_PositionReported ==
    /\ call \in ContextCalls
    /\ ctx.position \notin {"outside"}
    /\ ctx.inWireviewTag

(***************************************************************************)
(* Properties of the parent-component resolution                           *)
(***************************************************************************)

ParentCalls == {"kt.findParentComponent", "lua.find_parent_component"}

\* The component name an opening block tag carries.
BlockName(f) ==
    CASE f = "{% component_block 'Outer' %}"    -> "Outer"
      [] f = "{%- component_block \"Inner\" %}" -> "Inner"

\* The stack of open blocks after the first n typed fragments: an opening
\* tag pushes its name, a closing tag pops, a closing tag on the empty stack
\* and any other tag leave it alone.
RECURSIVE OpenBlocksAfter(_)
OpenBlocksAfter(n) ==
    IF n = 0 THEN <<>>
    ELSE LET below == OpenBlocksAfter(n - 1)
             f == typed[n]
         IN  IF f \in OpenBlocks THEN Append(below, BlockName(f))
             ELSE IF f \in CloseBlocks /\ below # <<>>
             THEN SubSeq(below, 1, Len(below) - 1)
             ELSE below

Top(stack) == IF stack = <<>> THEN Nil ELSE stack[Len(stack)]

\* The number of typed fragments that lie wholly before the cursor, when
\* the cursor is at a tag boundary or anywhere in a tag that is no block tag.
TagsBeforeCursor ==
    IF typed = <<>> \/ cursor = Len(buffer) THEN Len(typed)
    ELSE Len(typed) - 1

AtBoundaryOrInPlainTag ==
    \/ typed = <<>>
    \/ cursor = Len(buffer)
    \/ cursor = Len(buffer) - Len(typed[Len(typed)])
    \/ typed[Len(typed)] \in NestedTags

\* C6: over any interleaving of opening component_block tags and
\* endcomponent_block tags, findParentComponent (Kotlin) and
\* find_parent_component (Lua) return the top of the stack built in document
\* order (open pushes, close pops, close on the empty stack is a no-op), or
\* nothing when the stack is empty.
C6_ParentIsTopOfStack ==
    (call \in ParentCalls /\ AtBoundaryOrInPlainTag)
        => parent = Top(OpenBlocksAfter(TagsBeforeCursor))

\* The resolution ran behind an opening, a closing and another opening
\* block tag and returned the name of the last one.
C6_InterleavedBlocks ==
    /\ call \in ParentCalls
    /\ cursor = Len(buffer)
    /\ Len(typed) = 3
    /\ typed[1] \in OpenBlocks
    /\ typed[2] \in CloseBlocks
    /\ typed[3] \in OpenBlocks
    /\ parent = BlockName(typed[3])

(***************************************************************************)
(* Properties of the on-tag analysis                                       *)
(***************************************************************************)

\* Number of quote characters among the first n characters of s.
QuoteCount(s, n) == Cardinality({i \in 1..n : Ch(s, i) \in Quote})

\* The tag typed last and the offset of the cursor in it.
LastTag == typed[Len(typed)]
CursorInLastTag == cursor - (Len(buffer) - Len(LastTag))

\* The cursor is inside the still-open handler string of the on tag typed
\* last: the event string is closed and the handler string is opened before
\* the cursor, its closing quote is not.
InOpenHandlerString ==
    /\ scenario \in {"nested", "complete"}
    /\ typed # <<>>
    /\ LastTag \in {"{% on 'click' '' %}", "{% on \"a.b\" \"inc\" %}"}
    /\ CursorInLastTag \in 0..Len(LastTag)
    /\ QuoteCount(LastTag, CursorInLastTag) = 3

\* The handler position is reported with the innermost open block.
HandlerOfInnermostBlock ==
    /\ ctx.position = "handler_name"
    /\ ctx.componentName = Top(OpenBlocksAfter(Len(typed) - 1))

\* C7: in the Kotlin and the Lua parser, with the cursor inside the
\* still-open handler string of an on tag, the context has position
\* HandlerName and componentName the innermost component_block open at the
\* cursor (Inner behind Outer and Inner, Outer once Inner is closed again).
C7_NestedHandler ==
    (call \in {"kt.getCursorContextFromString", "lua.get_cursor_context_from_string"}
        /\ InOpenHandlerString)
    => HandlerOfInnermostBlock

\* The Kotlin parser does resolve the handler of the innermost block.
C7_KotlinNestedHandler ==
    (call = "kt.getCursorContextFromString" /\ InOpenHandlerString)
    => HandlerOfInnermostBlock

\* A parser was asked about a handler string behind two opened blocks.
C7_HandlerInTwoBlocks ==
    /\ call \in {"kt.getCursorContextFromString", "lua.get_cursor_context_from_string"}
    /\ InOpenHandlerString
    /\ Len(OpenBlocksAfter(Len(typed) - 1)) = 2

\* An "on" document is complete and opened without a trim marker (a
\* trim-marked tag does not reach the on-tag analyzer of every parser).
PlainOnTag ==
    /\ scenario = "on"
    /\ Len(typed) = 5
    /\ typed[1] \in {"{% on ", "{%on  "}

\* The text of the event string, the offset of its first character, and
\* the part of it before the cursor.
EventText     == Slice(typed[2], 1, Len(typed[2]) - 1)
EventStart    == Len(typed[1]) + 1
CursorInEvent == cursor - EventStart
PartialEvent  == Slice(EventText, 0, CursorInEvent)

\* The cursor is inside the event string: behind its opening quote and not
\* behind its closing quote.
InEventString == PlainOnTag /\ CursorInEvent \in 0..Len(EventText)

\* C8: in the TS and the Kotlin parser, for an on tag whose event string
\* contains dots and a cursor behind the last dot inside that string, the
\* position is Modifier, eventName is the text before the first dot and
\* currentValue is the text between the last dot and the cursor.
C8_ModifierTieBreak ==
    (/\ call \in {"ts.getCursorContext", "kt.getCursorContextFromString"}
     /\ InEventString
     /\ IndexOf(EventText, ".", 0) # -1
     /\ CursorInEvent > LastIndexOf(EventText, "."))
    => /\ ctx.position = "modifier"
       /\ ctx.eventName = Slice(EventText, 0, IndexOf(EventText, ".", 0))
       /\ ctx.currentValue = Slice(EventText, LastIndexOf(EventText, ".") + 1, CursorInEvent)

\* Both parsers were asked about the offset right behind "debounce" in
\* {% on 'click.prevent.debounce' ... %} and answered click / debounce.
C8_BehindDebounce ==
    /\ call \in {"ts.getCursorContext", "kt.getCursorContextFromString"}
    /\ InEventString
    /\ typed[2] = "'click.prevent.debounce'"
    /\ CursorInEvent = Len(EventText)
    /\ ctx.eventName = "click"
    /\ ctx.currentValue = "debounce"

\* The event / modifier split for the parsers named in ops.  The event
\* name of a modifier is accepted as the text before the first dot of the
\* partial text as well as the text before its last dot.
SplitHolds(ops) ==
    (call \in ops /\ InEventString) =>
        IF IndexOf(PartialEvent, ".", 0) # -1
        THEN /\ ctx.position = "modifier"
             /\ ctx.eventName \in {Slice(PartialEvent, 0, IndexOf(PartialEvent, ".", 0)),
                                   Slice(PartialEvent, 0, LastIndexOf(PartialEvent, "."))}
             /\ ctx.currentValue = Slice(PartialEvent, LastIndexOf(PartialEvent, ".") + 1,
                                         Len(PartialEvent))
        ELSE /\ ctx.position = "event_name"
             /\ ctx.currentValue = PartialEvent

\* C9: in all three parsers, for every cursor position inside the event
\* string of an on tag, the position is Modifier when the text of the
\* string before the cursor contains a dot and EventName otherwise; a
\* modifier comes with the event name before the dot and the text behind
\* the last dot as currentValue, an event name with the whole partial text.
C9_EventModifierSplit == SplitHolds(ContextCalls)

\* The split does hold in the Kotlin parser.
C9_KotlinSplit == SplitHolds({"kt.getCursorContextFromString"})

\* A parser was asked about an offset between two dots of an event string.
C9_BetweenDots ==
    /\ call \in ContextCalls
    /\ InEventString
    /\ IndexOf(PartialEvent, ".", 0) # -1
    /\ IndexOf(EventText, ".", CursorInEvent) # -1

\* The prefix the on-tag analyzer of the last call worked on: the tag up to
\* the cursor in parseOnTag, up to and with the character at the cursor in
\* parse_on_tag.
AnalyzerPrefix ==
    IF call = "lua.get_cursor_context_from_string"
    THEN Slice(buffer, 0, cursor + 1)
    ELSE Slice(buffer, 0, cursor)

\* The analyzer answered through the handler-start rule: an empty handler
\* name on a prefix that ends with whitespace.
HandlerStartRuleFired ==
    /\ call \in {"kt.getCursorContextFromString", "lua.get_cursor_context_from_string"}
    /\ PlainOnTag
    /\ ctx.position = "handler_name"
    /\ ctx.currentValue = ""
    /\ AnalyzerPrefix # ""
    /\ Ch(AnalyzerPrefix, Len(AnalyzerPrefix)) \in Space

\* C10: when parseOnTag (Kotlin) or parse_on_tag (Lua) answers HandlerName
\* with empty currentValue through the rule "the prefix ends with a closing
\* quote followed by whitespace", the prefix holds exactly one completed
\* quoted string, the event string.
C10_HandlerStartRule ==
    HandlerStartRuleFired => QuoteCount(AnalyzerPrefix, Len(AnalyzerPrefix)) = 2

\* The rule fired right behind the event string.
C10_RuleBehindEvent ==
    /\ HandlerStartRuleFired
    /\ QuoteCount(AnalyzerPrefix, Len(AnalyzerPrefix)) = 2

(***************************************************************************)
(* Properties of the component analyzer                                    *)
(***************************************************************************)

\* One of the parsers named in ops was asked about an offset inside the one
\* complete tag of a "component" document.
InComponentTag(ops) ==
    /\ scenario = "component"
    /\ Len(typed) = 5
    /\ call \in ops
    /\ cursor < Len(buffer)

\* The fragments of the tag and where they start in it.
NameString  == typed[2]
NameText    == SubSeq(NameString, 2, Len(NameString) - 1)
KeyWord     == SubSeq(typed[3], 2, Len(typed[3]))
Assignment  == typed[4]
NameStart   == Len(typed[1])
KeyStart    == NameStart + Len(typed[2])
AssignStart == KeyStart + Len(typed[3])
CloseStart  == AssignStart + Len(typed[4])

\* Length of the prefix the analyzer looks at.
PrefixLen == Len(AnalyzerPrefix)

\* The tag names a component and has an attribute key.
NamedWithKey == NameText # "" /\ KeyWord # ""

\* The prefix ends with the attribute key: {% component 'N' w
PrefixEndsWithKey == NamedWithKey /\ PrefixLen = AssignStart

\* The prefix ends with the key and "=": {% component 'N' w=
PrefixEndsWithEquals ==
    NamedWithKey /\ Assignment # "" /\ PrefixLen = AssignStart + 1

NameOrValue(ops) ==
    InComponentTag(ops) =>
        /\ PrefixEndsWithKey =>
              ctx.position = "attribute_name" /\ ctx.currentValue = KeyWord
        /\ PrefixEndsWithEquals =>
              /\ ctx.position = "attribute_value"
              /\ ctx.attributeName = KeyWord
              /\ ctx.currentValue = ""

\* C11: in all three parsers, for every component name N and word w, the
\* prefix {% component 'N' w gives AttributeName with currentValue = w, and
\* the prefix {% component 'N' w= gives AttributeValue with
\* attributeName = w and currentValue = "".
C11_AttributeNameOrValue == NameOrValue(ContextCalls)

\* The same for the TS and the Kotlin parser.
C11_TsKotlinNameOrValue ==
    NameOrValue({"ts.getCursorContext", "kt.getCursorContextFromString"})

\* A parser was asked about a prefix that ends with the key a_b and "=".
C11_BehindEquals ==
    /\ InComponentTag(ContextCalls)
    /\ PrefixEndsWithEquals
    /\ KeyWord = "a_b"

\* The assigned value is a quoted string.
QuotedValue == Len(Assignment) >= 2 /\ Ch(Assignment, 2) \in Quote

\* The prefix ends inside the value of the attribute: directly behind the
\* "=", inside the open quoted value, or inside or at the end of the bare
\* value.
PrefixInValue ==
    /\ NamedWithKey
    /\ Assignment # ""
    /\ PrefixLen > AssignStart
    /\ PrefixLen <= (IF QuotedValue THEN CloseStart - 1 ELSE CloseStart)

\* The prefix ends inside or at the end of the key.
PrefixInKey == NamedWithKey /\ PrefixLen > KeyStart + 1 /\ PrefixLen <= AssignStart

ValueDetected(ops) ==
    InComponentTag(ops) =>
        /\ PrefixInValue =>
              ctx.position = "attribute_value" /\ ctx.attributeName = KeyWord
        /\ PrefixInKey => ctx.position = "attribute_name"

\* C12: in all three parsers, whenever the cursor is inside an attribute's
\* value (directly after name=, inside an open quoted value, inside a
\* partially typed bare value) the position is AttributeValue with
\* attributeName = name, and it is AttributeName while the key is typed.
C12_InsideValue == ValueDetected(ContextCalls)

\* The same for the Kotlin parser alone, and for the TS parser alone.
C12_KotlinInsideValue == ValueDetected({"kt.getCursorContextFromString"})
C12_TsInsideValue == ValueDetected({"ts.getCursorContext"})

\* A parser was asked about a prefix that ends inside a bare value.
C12_InBareValue ==
    /\ InComponentTag(ContextCalls)
    /\ PrefixInValue
    /\ Assignment = "=12"
    /\ PrefixLen = AssignStart + 2

\* The prefix ends inside the name string, which is then unterminated:
\* behind the opening quote and before the closing one.
PrefixInName == PrefixLen > NameStart /\ PrefixLen < KeyStart

\* The characters between the opening quote and the end of the prefix.
TypedName == SubSeq(buffer, NameStart + 2, PrefixLen)

NamePosition(ops) ==
    InComponentTag(ops) /\ PrefixInName =>
        ctx.position = "component_name" /\ ctx.currentValue = TypedName

\* C13: in all three parsers, whenever the prefix of a component or
\* component_block tag ends inside an unterminated quoted string that
\* directly follows the keyword, the position is ComponentName and
\* currentValue is exactly the text between the opening quote and the
\* cursor, also where the text looks like an attribute.
C13_ComponentNamePosition == NamePosition(ContextCalls)

\* The same for the Kotlin and the Lua parser.
C13_KotlinLuaNamePosition ==
    NamePosition({"kt.getCursorContextFromString",
                  "lua.get_cursor_context_from_string"})

\* A parser was asked about a prefix that ends inside the name string behind
\* text that reads like an attribute with "=".
C13_NameLikeAttribute ==
    /\ InComponentTag(ContextCalls)
    /\ PrefixInName
    /\ TypedName = " a="

\* The prefix holds a quote behind the opening one that is followed by
\* whitespace.
ClosedQuoteThenSpace ==
    \E i \in (NameStart + 2)..(PrefixLen - 1) :
        Ch(buffer, i) \in Quote /\ Ch(buffer, i + 1) \in Space

\* The prefix has not reached the attribute section: it does not end inside
\* the open name string and holds no closing quote followed by whitespace.
NoAttributeSection == ~PrefixInName /\ ~ClosedQuoteThenSpace

\* The name the tag holds; an empty string between the quotes is no name.
NameFound == IF NameText = "" THEN {Nil, ""} ELSE {NameText}

OutsideWithName(ops) ==
    InComponentTag(ops) /\ NoAttributeSection =>
        ctx.position = "outside" /\ ctx.componentName \in NameFound

\* C14: in all three parsers, when the prefix of a component or
\* component_block tag neither ends inside the open name string nor holds a
\* closing quote followed by whitespace, the position is Outside and
\* componentName is the complete name found in the tag.
C14_NoSectionIsOutside == OutsideWithName(ContextCalls)

\* The same for the Kotlin parser alone, for the names without whitespace.
C14_KotlinNoSectionIsOutside ==
    InComponentTag({"kt.getCursorContextFromString"}) /\ NameText # " a=" =>
        OutsideWithName({"kt.getCursorContextFromString"})

\* A parser was asked about a prefix that ends directly behind the closing
\* quote of the name.
C14_BehindClosingQuote ==
    /\ InComponentTag(ContextCalls)
    /\ NoAttributeSection
    /\ NameText = "Ab"
    /\ PrefixLen = KeyStart

\* A parser was asked about a cursor inside a fill or render_slot tag.
InSlotTag(ops) ==
    /\ scenario = "slot"
    /\ Len(typed) = 3
    /\ call \in ops
    /\ cursor < Len(buffer)

\* The slot name as typed, where it starts, and whether it is quoted.
SlotString == typed[2]
SlotStart  == Len(typed[1])
SlotQuoted == SlotString # "" /\ Ch(SlotString, 1) \in Quote

\* The prefix ends inside the slot name: behind at least one character of
\* the bare word, or behind the opening quote and before the closing one.
PrefixInSlotName ==
    /\ PrefixLen > SlotStart
    /\ PrefixLen <= SlotStart + Len(SlotString) - (IF SlotQuoted THEN 1 ELSE 0)

\* The word between the start of the name (or its opening quote) and the end
\* of the prefix.
TypedSlot ==
    SubSeq(buffer, SlotStart + (IF SlotQuoted THEN 2 ELSE 1), PrefixLen)

SlotNamePosition(ops) ==
    InSlotTag(ops) /\ PrefixInSlotName =>
        ctx.position = "slot_name" /\ ctx.currentValue = TypedSlot

\* C15: in all three parsers, for every word w the prefixes {% fill w and
\* {% fill 'w (or "w) give SlotName with currentValue = w, and the same
\* holds for render_slot.
C15_SlotNameBareOrQuoted == SlotNamePosition(ContextCalls)

\* The same for the Kotlin parser alone.
C15_KotlinSlotName == SlotNamePosition({"kt.getCursorContextFromString"})

\* A parser was asked about a prefix that ends inside a quoted slot name of a
\* render_slot tag.
C15_InQuotedSlot ==
    /\ InSlotTag(ContextCalls)
    /\ PrefixInSlotName
    /\ typed[1] = "{% render_slot "
    /\ SlotQuoted
    /\ TypedSlot = "a_"

(***************************************************************************)
(* Properties of the slot tags inside component blocks                     *)
(***************************************************************************)

\* A parser was asked about a cursor strictly inside the tag typed last, a
\* tag of the given set behind at least one block that is still open.
InsideNestedTag(ops, tags) ==
    /\ scenario = "nested"
    /\ typed # <<>>
    /\ call \in ops
    /\ LastTag \in tags
    /\ CursorInLastTag \in 1..(Len(LastTag) - 1)
    /\ OpenBlocksAfter(Len(typed) - 1) # <<>>

FillCarriesParent(ops) ==
    /\ InsideNestedTag(ops, {"{% fill head %}"}) =>
          ctx.componentName = Top(OpenBlocksAfter(Len(typed) - 1))
    /\ InsideNestedTag(ops, {"{% render_slot 'a' %}"}) =>
          ctx.componentName = Nil

\* C16: in the Kotlin, the TS and the Lua pipeline, the context of a cursor
\* in a fill tag inside an open component_block X has componentName = X, and
\* the context of a cursor in a render_slot tag has no componentName.
C16_FillCarriesParent == FillCarriesParent(ContextCalls)

\* The same for the Lua pipeline alone.
C16_LuaFillCarriesParent ==
    FillCarriesParent({"lua.get_cursor_context_from_string"})

\* A pipeline was asked about a fill tag behind two opened blocks.
C16_FillInTwoBlocks ==
    /\ InsideNestedTag(ContextCalls, {"{% fill head %}"})
    /\ OpenBlocksAfter(Len(typed) - 1) = <<"Outer", "Inner">>

(***************************************************************************)
(* Properties of the slot analyzers on prefixes they have no pattern for   *)
(***************************************************************************)

\* The prefix ends inside the keyword part of the tag, behind a character
\* that is no whitespace: no pattern of the analyzer reaches its name part.
PrefixInKeyword ==
    /\ PrefixLen >= 1
    /\ PrefixLen < SlotStart
    /\ Ch(buffer, PrefixLen) \notin Space

\* The prefix ends behind the complete slot name, in the rest of the tag.
PrefixBehindSlotName ==
    SlotString # "" /\ PrefixLen > SlotStart + Len(SlotString)

UnmatchedIsOutside(ops) ==
    InSlotTag(ops) /\ (PrefixInKeyword \/ PrefixBehindSlotName) =>
        ctx.position = "outside"

\* C17: in all three parsers, an analyzer whose patterns all fail on the
\* prefix returns position Outside; none answers AttributeName, EventName or
\* SlotName for an unmatched prefix.
C17_UnmatchedIsOutside == UnmatchedIsOutside(ContextCalls)

\* The same for the Kotlin and the Lua parser.
C17_KotlinLuaUnmatchedIsOutside ==
    UnmatchedIsOutside({"kt.getCursorContextFromString",
                        "lua.get_cursor_context_from_string"})

\* A parser was asked about a prefix that ends behind the slot name of a
\* fill tag, inside let:x.
C17_BehindSlotName ==
    /\ InSlotTag(ContextCalls)
    /\ typed = <<"{% fill ", "head", " let:x %}">>
    /\ PrefixLen = SlotStart + Len(SlotString) + 4

(***************************************************************************)
(* Properties of the pipelines on offsets outside the text                 *)
(***************************************************************************)

\* The offset asked about lies outside the text, or the text is empty.
OutOfRange == buffer = "" \/ cursor > Len(buffer) \/ cursor < 0

\* The context says that no tag encloses the offset, and it is a value: the
\* call did not end with an exception.
NoEnclosingTag ==
    /\ ctx.inWireviewTag = FALSE
    /\ ctx.position = "outside"
    /\ ctx.tagType = Nil
    /\ ctx.componentName # Raised

\* C18: for the empty document, for every offset greater than the length of
\* the document and for every negative offset, the pipeline of each parser
\* returns the result for no enclosing tag (not in a tag, position Outside)
\* and raises no exception.
C18_OutOfRangeIsNoTag ==
    call \in ContextCalls /\ OutOfRange => NoEnclosingTag

\* A pipeline was asked about a negative offset in a document that starts
\* with an open block and ends with an on tag.
C18_NegativeOffset ==
    /\ call \in ContextCalls
    /\ cursor < 0
    /\ Len(typed) = 2
    /\ typed[1] \in OpenBlocks
    /\ typed[2] = "{% on 'click' '' %}"

(***************************************************************************)
(* Properties of the handler completion                                    *)
(***************************************************************************)

\* The methods of component n that are async and no base method.
EligibleMethods(n) ==
    {m \in DOMAIN metadata.components[n].methods :
        /\ metadata.components[n].methods[m].is_async
        /\ m \notin TsExcludedMethods}

\* The block that is open where the tag typed last starts.
EnclosingBlock == Top(OpenBlocksAfter(Len(typed) - 1))

\* A completion request of the VSCode server, with metadata loaded, for a
\* cursor in the open handler string of an on tag inside a block.
HandlerRequestInBlock ==
    /\ call = "ts.onCompletion"
    /\ metadata.loaded
    /\ InOpenHandlerString
    /\ EnclosingBlock # Nil

\* C19: with metadata loaded, a VSCode completion request for a cursor in
\* the handler string of an on tag inside a component_block of component X
\* is answered from a context with position handler_name and
\* componentName = X, and returns the eligible methods of X.
C19_HandlerCompletionEndToEnd ==
    HandlerRequestInBlock =>
        /\ ctx.position = "handler_name"
        /\ ctx.componentName = EnclosingBlock
        /\ offered = EligibleMethods(EnclosingBlock)

\* Such a request was made inside the block Outer while inc is an async
\* method of Outer.
C19_RequestInOuter ==
    /\ HandlerRequestInBlock
    /\ EnclosingBlock = "Outer"
    /\ "inc" \in EligibleMethods("Outer")

\* The three handler-completion functions.
HandlerCalls ==
    {"ts.getHandlerCompletions", "kt.addHandlerCompletions",
     "lua.get_handler_completions"}

\* The components the asked name denotes: by name, fqn or app_key.
AskedComponents ==
    {n \in DOMAIN metadata.components :
        asked.componentName \in
            {n, metadata.components[n].fqn, metadata.components[n].app_key}}

\* The typed prefix admits the method: the VSCode function takes no prefix;
\* for the other two, the name starts with it, letter case aside.
PrefixAdmits(m) ==
    \/ call = "ts.getHandlerCompletions"
    \/ asked.prefix = Nil
    \/ StartsWith(ToLowerCase(m), ToLowerCase(asked.prefix))

\* C20: for every component and every method m of its metadata, m is in the
\* handler completion list exactly if m is async, its name is not in the
\* list of excluded base methods and (Kotlin, Lua) its name starts with the
\* typed prefix, letter case aside; the three lists of excluded methods are
\* the same.
C20_OnlyEventHandlers ==
    /\ TsExcludedMethods = KtExcludedMethods
    /\ KtExcludedMethods = LuaExcludedMethods
    /\ (call \in HandlerCalls /\ metadata.loaded) =>
          \A n \in AskedComponents :
              \A m \in DOMAIN metadata.components[n].methods :
                  m \in offered <=>
                      /\ metadata.components[n].methods[m].is_async
                      /\ m \notin TsExcludedMethods
                      /\ PrefixAdmits(m)

\* The Kotlin provider was asked for Inner by its app key with the prefix IN
\* while all methods are async, and offered inc and Incr only.
C20_PrefixInUpperCase ==
    /\ call = "kt.addHandlerCompletions"
    /\ metadata.loaded
    /\ asked = [componentName |-> "app:Inner", prefix |-> "IN"]
    /\ \A m \in MethodNames : metadata.components["Inner"].methods[m].is_async
    /\ offered = {"inc", "Incr"}

(***************************************************************************)
(* Properties of the component completion                                  *)
(***************************************************************************)

\* The text starts with the typed prefix, letter case aside; every text
\* does when no prefix or the empty prefix is typed.
StartsWithTyped(text) ==
    \/ asked.prefix = Nil
    \/ StartsWith(ToLowerCase(text), ToLowerCase(asked.prefix))

\* C21: for every typed prefix p and every component c, the VSCode
\* component completion offers the simple name of c exactly if it starts
\* with p, the fqn of c exactly if the fqn starts with p, and the app_key of
\* c exactly if the app_key starts with p, letter case aside and each of the
\* three judged by itself.
C21_ThreeNamingFormats ==
    call = "ts.getComponentCompletions" =>
        \A n \in DOMAIN metadata.components :
            /\ n \in offered <=> StartsWithTyped(n)
            /\ metadata.components[n].fqn \in offered
                  <=> StartsWithTyped(metadata.components[n].fqn)
            /\ metadata.components[n].app_key \in offered
                  <=> StartsWithTyped(metadata.components[n].app_key)

\* The same for the simple names alone.
C21_SimpleNames ==
    call = "ts.getComponentCompletions" =>
        \A n \in DOMAIN metadata.components : n \in offered <=> StartsWithTyped(n)

\* The component completion was asked for the prefix app:o, with which the
\* app_key of Outer starts.
C21_AppKeyPrefix ==
    /\ call = "ts.getComponentCompletions"
    /\ asked.prefix = "app:o"

(***************************************************************************)
(* Properties of go to definition                                          *)
(***************************************************************************)

\* The document is one component tag, and its name string: the text between
\* the first quote of the tag and the next one, and where it starts.
OneNamedTag == Len(typed) = 1 /\ typed[1] \in OpenBlocks \cup NamedTags
FirstQuote(text) == SetMin({i \in 0..(Len(text) - 1) : Ch(text, i + 1) \in Quote})
TagNameStart == FirstQuote(buffer) + 1
TagNameEnd ==
    SetMin({i \in TagNameStart..(Len(buffer) - 1) : Ch(buffer, i + 1) \in Quote})
TagName == Slice(buffer, TagNameStart, TagNameEnd)

\* The component of the metadata with that simple name, fqn or app_key.
Known(md, name) ==
    {n \in DOMAIN md.components :
        name \in {n, md.components[n].fqn, md.components[n].app_key}}

\* The cursor of a definition request lies on a character of the name of a
\* component the loaded metadata knows.
OnKnownName ==
    /\ call = "ts.onDefinition"
    /\ OneNamedTag
    /\ metadata.loaded
    /\ cursor \in TagNameStart..(TagNameEnd - 1)
    /\ Known(metadata, TagName) # {}

\* C22: a definition request at an offset on the characters of a component
\* name that the metadata knows (as simple name, fqn or app_key) returns the
\* location of that component, its file_path and the line line_number - 1,
\* wherever in the name the cursor is.
C22_DefinitionOfComponentName ==
    OnKnownName =>
        \E n \in Known(metadata, TagName) :
            target = Location(metadata.components[n].file_path,
                              metadata.components[n].line_number - 1)

\* The cursor is on the third character of the name Outer.
C22_InsideOuter ==
    /\ OnKnownName
    /\ TagName = "Outer"
    /\ cursor = TagNameStart + 2

(***************************************************************************)
(* The Kotlin and the Lua parser on the same document and offset           *)
(***************************************************************************)

\* The Lua parser was asked about an offset inside a tag that the Kotlin
\* locator recognizes, too.
LuaAskedInsideTag ==
    /\ call = "lua.get_cursor_context_from_string"
    /\ cursor \in 0..(Len(buffer) - 1)
    /\ ctx.inWireviewTag
    /\ KtFindEnclosingTag(buffer, cursor).found

\* C25: for the same document and offset inside a recognized tag the Kotlin
\* and the Lua parser analyze the same prefix, the characters of the tag
\* strictly before the cursor, and so return the same position and the same
\* currentValue.
C25_SamePrefixSameContext ==
    LuaAskedInsideTag =>
        /\ ctx.position = KtGetCursorContextFromString(buffer, cursor).position
        /\ ctx.currentValue = KtGetCursorContextFromString(buffer, cursor).currentValue

\* The Lua parser was asked about the offset of the closing quote of the
\* event string 'click' of an on tag.
C25_AtClosingQuote ==
    /\ LuaAskedInsideTag
    /\ scenario = "on"
    /\ Len(typed) = 5
    /\ typed[1] = "{% on " /\ typed[2] = "'click'"
    /\ cursor = Len(typed[1]) + Len(typed[2]) - 1

(***************************************************************************)
(* Properties of the metadata refresh of the VSCode server                 *)
(***************************************************************************)

\* The calls that ended, with success and with failure.
Succeeded == {i \in DOMAIN calls : calls[i].pc = "done" /\ calls[i].callbacks = <<TRUE>>}
Failed    == {i \in DOMAIN calls : calls[i].pc = "done" /\ calls[i].callbacks = <<FALSE>>}

\* C23: every manual refresh that reports success has run the Python
\* extractor after the request was made, so that the metadata in memory
\* afterwards was generated at or after the request and not taken from an
\* older cache file.
C23_SuccessHasRunExtractor ==
    \A i \in Succeeded :
        /\ calls[i].ran
        /\ calls[i].after.loaded
        /\ calls[i].after.generated_at >= calls[i].requested \div 1000

\* A refresh reported success without an extractor, and the metadata it
\* left in memory is not that of the code the project had at the request.
C23_SuccessFromOlderCache ==
    \E i \in Succeeded :
        /\ ~calls[i].ran
        /\ calls[i].after.components # MetadataOf(calls[i].project).components

\* C30: when a refresh of the VSCode server fails, getMetadata() returns
\* afterwards the value it returned before the call.
C30_FailedRefreshKeepsMetadata ==
    \A i \in Failed : ~calls[i].overlapped => calls[i].after = calls[i].before

\* A refresh failed with no other refresh under way, on a cache file that
\* holds metadata.
C30_FailedOnStaleCache ==
    \E i \in Failed :
        /\ ~calls[i].overlapped
        /\ calls[i].after.loaded

(***************************************************************************)
(* Properties of the cache and of the refresh of the Neovim plugin         *)
(***************************************************************************)

\* The cache file a call found was missing, unparseable, or generated at
\* least five minutes of true elapsed time before the call.
TtlMs == 300000
StaleAtRequest(i) ==
    \/ ~calls[i].file.exists
    \/ ~calls[i].file.parseable
    \/ calls[i].requested - 1000 * calls[i].file.content.generated_at >= TtlMs

\* The call completed from the cache alone.
FromCache(i) ==
    /\ calls[i].pc = "done"
    /\ calls[i].callbacks = <<TRUE>>
    /\ ~calls[i].ran

\* C24: a refresh starts the extractor only if the cache file is missing,
\* unparseable or at least as old as the TTL, and completes from the cache
\* alone exactly if the file is younger than the TTL, the age being the true
\* time elapsed since the UTC instant in generated_at, whatever the local
\* time zone is.
C24_CacheTtl ==
    \A i \in DOMAIN calls :
        ~calls[i].busy =>
            /\ calls[i].ran => StaleAtRequest(i)
            /\ FromCache(i) <=> ~StaleAtRequest(i)

\* The same in the time zone UTC.
C24_CacheTtlInUtc == tz = 0 => C24_CacheTtl

\* East of Greenwich a refresh found a cache file generated a second ago.
C24_YoungCacheEastOfGreenwich ==
    \E i \in DOMAIN calls :
        /\ tz > 0
        /\ ~calls[i].busy
        /\ ~StaleAtRequest(i)
        /\ calls[i].requested - 1000 * calls[i].file.content.generated_at = 1000

\* C27: in the Neovim plugin at most one extractor job is in flight at any
\* time, and a refresh(callback) made while is_refreshing is true starts no
\* job, leaves cached_metadata as it is and invokes its callback with false.
C27_SingleFlight ==
    /\ Cardinality(jobs) <= 1
    /\ \A i \in DOMAIN calls :
          calls[i].busy =>
              /\ ~calls[i].ran
              /\ ~(i \in jobs)
              /\ calls[i].pc = "done"
              /\ calls[i].after = calls[i].before
              /\ calls[i].callbacks = <<FALSE>>

\* A refresh was called while the job of an earlier one was running.
C27_CalledDuringJob ==
    \E i \in DOMAIN calls : calls[i].busy /\ jobs # {}

\* The call i was made, has ended and has invoked its callback once; it was
\* made and is not waiting for a job that was never started.
CalledBack(i) ==
    /\ i \in DOMAIN calls
    /\ calls[i].pc = "done"
    /\ Len(calls[i].callbacks) = 1
Started(i) ==
    /\ i \in DOMAIN calls
    /\ calls[i].pc = "job" => i \in jobs

\* C29: every refresh(callback) invokes its callback at some time, and only
\* once, and a refreshing flag that was set returns to false at some time,
\* whether the extractor exits with 0, exits with another code or cannot be
\* started.
C29_RefreshCompletes ==
    /\ [](\A i \in DOMAIN calls : Len(calls[i].callbacks) <= 1)
    /\ \A i \in 1..MaxCalls :
          [](i \in DOMAIN calls => <>CalledBack(i))
    /\ [](refreshing => <>(~refreshing))

\* The same for the refreshes whose job was started.
C29_StartedRefreshCompletes ==
    /\ [](\A i \in DOMAIN calls : Len(calls[i].callbacks) <= 1)
    /\ \A i \in 1..MaxCalls :
          [](Started(i) => <>CalledBack(i))

\* A refresh set the flag and its job could not be started.
C29_JobNotStarted ==
    \E i \in DOMAIN calls :
        /\ calls[i].pc = "job"
        /\ ~calls[i].ran
        /\ refreshing
        /\ jobs = {}

(***************************************************************************)
(* Properties of the refresh of the PyCharm plugin                         *)
(***************************************************************************)

\* C28: under every interleaving of refresh calls made on different
\* threads at most one extractor process is running at any time.
C28_OneExtractorProcess == Cardinality(jobs) <= 1

\* Two calls on different threads have both passed the test of
\* isRefreshing before either of them set it.
C28_BothPassedTheTest ==
    /\ ~refreshing
    /\ \E i, j \in DOMAIN calls :
          /\ calls[i].thread # calls[j].thread
          /\ calls[i].pc \in {"checked", "found"}
          /\ calls[j].pc \in {"checked", "found"}

(***************************************************************************)
(* Properties of the refresh on save                                       *)
(***************************************************************************)

FiredTimers == {k \in DOMAIN timers : timers[k].state = "fired"}

\* C26: a save of a Python file triggers a refresh only when 1000 ms have
\* passed with no further save; of saves that follow one another by less
\* than 1000 ms only the last triggers a refresh, one refresh, 1000 ms after
\* it; and at most one timer is pending at any time.
C26_DebouncedRefresh ==
    /\ Cardinality(PendingTimers) <= 1
    /\ Len(calls) = Cardinality(FiredTimers)
    /\ \A k \in FiredTimers :
          /\ timers[k].fired = timers[k].started + DebounceMs
          /\ \E i \in DOMAIN calls : calls[i].requested = timers[k].fired
          /\ \A j \in DOMAIN timers :
                j > k => timers[j].started >= timers[k].fired
    /\ \A k \in DOMAIN timers :
          /\ k < Len(timers) /\ timers[k + 1].started - timers[k].started < DebounceMs
                => timers[k].state = "stopped"
          /\ k = Len(timers) /\ now > timers[k].due
                => timers[k].state = "fired"

\* Two saves half a second apart, and the refresh a second after the later.
C26_BurstOfTwo ==
    /\ Len(timers) >= 2
    /\ timers[2].started = timers[1].started + 500
    /\ timers[1].state = "stopped"
    /\ timers[2].state = "fired"
====
